---- MODULE Spec2Model ----
(***************************************************************************)
(* A model of python-anyvcs' git adapter (anyvcs/git.py, anyvcs/common.py) *)
(* as a state machine: a client calls ls / cat / readlink on a repository  *)
(* and gets back a result or an exception.  The repository is read-only;   *)
(* the only state the adapter itself keeps is the object cache              *)
(* (.private/object-cache.db) that ls fills when 'commit' is reported.      *)
(*                                                                         *)
(* A path is a sequence of path characters: the separator "/" or a name    *)
(* (a maximal run of non-separator characters, kept as one element).       *)
(* A revision is the index of a commit in the repository's linear history. *)
(***************************************************************************)
EXTENDS Integers, Sequences, FiniteSets, TLC

VARIABLES
  repo,    \* the repository the adapter is opened on (read-only)
  cache,   \* .private/object-cache.db: object id -> commit
  pc,      \* the client: "ready" to call, or a call has "returned"
  ncalls,  \* the number of calls the client has made
  call,    \* the operation called and its arguments
  ret      \* what it returned or raised

vars == <<repo, cache, pc, ncalls, call, ret>>

(***************************************************************************)
(* Bounds of the explored inputs.                                          *)
(***************************************************************************)
\* longest run of separators written at one place of a path argument
MaxSlashes == 2
\* number of calls the client makes on a repository
MaxCalls == 2

(***************************************************************************)
(* Strings.                                                                *)
(***************************************************************************)
SEP == "/"

\* str.endswith('/')
EndsWithSep(s) == Len(s) > 0 /\ s[Len(s)] = SEP

\* str.startswith(prefix)
StartsWith(s, prefix) ==
  /\ Len(prefix) <= Len(s)
  /\ SubSeq(s, 1, Len(prefix)) = prefix

\* str.lstrip('/')
RECURSIVE LStrip(_)
LStrip(s) == IF s # <<>> /\ Head(s) = SEP THEN LStrip(Tail(s)) ELSE s

\* str.rstrip('/')
RECURSIVE RStrip(_)
RStrip(s) ==
  IF s # <<>> /\ s[Len(s)] = SEP THEN RStrip(SubSeq(s, 1, Len(s) - 1)) ELSE s

\* had multislash_rx been '//': every pair of separators becomes one
RECURSIVE multislash_sub_pairs(_)
multislash_sub_pairs(s) ==
  IF Len(s) < 2 THEN s
  ELSE IF s[1] = SEP /\ s[2] = SEP THEN <<SEP>> \o multislash_sub_pairs(Tail(Tail(s)))
  ELSE <<s[1]>> \o multislash_sub_pairs(Tail(s))

\* multislash_rx.sub('/', s): every run of two or more separators becomes one
RECURSIVE multislash_sub(_)
multislash_sub(s) ==
  IF Len(s) < 2 THEN s
  ELSE IF s[1] = SEP /\ s[2] = SEP THEN multislash_sub(Tail(s))
  ELSE <<s[1]>> \o multislash_sub(Tail(s))

\* cleanPath without its lstrip
cleanPath_unstripped(path) == multislash_sub(path)

\* VCSRepo.cleanPath
cleanPath(path) == multislash_sub(LStrip(path))

\* int(mode, 8) on the digits of the mode column
RECURSIVE OctToInt(_)
OctToInt(digits) ==
  IF digits = <<>> THEN 0
  ELSE 8 * OctToInt(SubSeq(digits, 1, Len(digits) - 1)) + digits[Len(digits)]

\* stat.S_IFMT(mode) >> 12, and the tests built on it
S_IFMT(mode) == (mode \div 4096) % 16
S_ISDIR(mode) == S_IFMT(mode) = 4
S_ISREG(mode) == S_IFMT(mode) = 8
S_ISLNK(mode) == S_IFMT(mode) = 10
\* a slip in the mask: the owner-write bit read instead of the owner-execute bit
S_IWUSR(mode) == (mode \div 128) % 2 = 1

\* mode & stat.S_IXUSR
S_IXUSR(mode) == (mode \div 64) % 2 = 1

(***************************************************************************)
(* The repositories the adapter is run against: what the test classes of   *)
(* tests/common.py commit.  A tree is the sequence of lines that           *)
(* `git ls-tree -r -t -l` prints for a revision, in git's order; blobs are *)
(* content-addressed, so equal content has an equal object id.             *)
(***************************************************************************)
Entry(name, mode, object, size) ==
  [name |-> name, mode |-> mode, object |-> object, size |-> size]

MODE_FILE == <<1, 0, 0, 6, 4, 4>>
MODE_EXEC == <<1, 0, 0, 7, 5, 5>>
MODE_LINK == <<1, 2, 0, 0, 0, 0>>
MODE_TREE == <<0, 4, 0, 0, 0, 0>>
DASH == <<"-">>

Repos == {"BasicTest", "CopyTest"}

\* number of commits the fixture makes
NumCommits(R) ==
  CASE R = "BasicTest" -> 1
    [] R = "CopyTest" -> 5
    [] R = "EmptyWithCommitsTest" -> 2
    [] R = "EmptyTest" -> 0
    [] R = "EmptyMainBranchTest" -> 1
    [] R = "UnrelatedBranchTest" -> 2
    [] R = "BranchTestStep7" -> 6
    [] R = "CacheTest" -> 1

Revs(R) == 1 .. NumCommits(R)

\* BasicTest.setUpWorkingCopy: a, b -> a, c/d/e (executable), c/d/f -> e
BasicTree ==
  << Entry(<<"a">>, MODE_FILE, "blob:Pisgah", <<6>>),
     Entry(<<"b">>, MODE_LINK, "blob:a", <<1>>),
     Entry(<<"c">>, MODE_TREE, "tree:c", DASH),
     Entry(<<"c", SEP, "d">>, MODE_TREE, "tree:c/d", DASH),
     Entry(<<"c", SEP, "d", SEP, "e">>, MODE_EXEC, "blob:Denali", <<6>>),
     Entry(<<"c", SEP, "d", SEP, "f">>, MODE_LINK, "blob:e", <<1>>) >>

\* CopyTest.setUpWorkingCopy: main, then copy with the same content, then
\* revert created with that content, changed and changed back
CopyFile(name, text) ==
  Entry(<<name>>, MODE_FILE, IF text = "Sherlock" THEN "blob:Sherlock" ELSE "blob:Watson",
        IF text = "Sherlock" THEN <<8>> ELSE <<6>>)

CopyTree(rev) ==
  CASE rev = 1 -> << CopyFile("main", "Sherlock") >>
    [] rev = 2 -> << CopyFile("copy", "Sherlock"), CopyFile("main", "Sherlock") >>
    [] rev = 3 -> << CopyFile("copy", "Sherlock"), CopyFile("main", "Sherlock"),
                     CopyFile("revert", "Sherlock") >>
    [] rev = 4 -> << CopyFile("copy", "Sherlock"), CopyFile("main", "Sherlock"),
                     CopyFile("revert", "Watson") >>
    [] rev = 5 -> << CopyFile("copy", "Sherlock"), CopyFile("main", "Sherlock"),
                     CopyFile("revert", "Sherlock") >>

\* EmptyWithCommitsTest.setUpWorkingCopy: a created, then deleted
EmptiedTree(rev) ==
  CASE rev = 1 -> << Entry(<<"a">>, MODE_FILE, "blob:blah", <<4>>) >>
    [] rev = 2 -> << >>

\* the tree of commit rev; commit 0 stands for "before the first commit"
Tree(R, rev) ==
  IF rev = 0 THEN <<>>
  ELSE CASE R = "BasicTest" -> BasicTree
         [] R = "CopyTest" -> CopyTree(rev)
         [] R = "EmptyWithCommitsTest" -> EmptiedTree(rev)

\* the bytes of a blob, by object id
Content(object) ==
  CASE object = "blob:Pisgah" -> <<"Pisgah">>
    [] object = "blob:Denali" -> <<"Denali">>
    [] object = "blob:a" -> <<"a">>
    [] object = "blob:e" -> <<"e">>
    [] object = "blob:Sherlock" -> <<"Sherlock">>
    [] object = "blob:Watson" -> <<"Watson">>
    [] object = "blob:blah" -> <<"blah">>

(***************************************************************************)
(* The git commands the adapter runs, as far as it reads their output.     *)
(***************************************************************************)
IsTreeEntry(e) == S_ISDIR(OctToInt(e.mode))

\* git's pathspec match: the entry named n is pathspec ps or lies below it
\* (the empty pathspec matches every entry)
Under(n, ps) ==
  \/ ps = <<>>
  \/ n = ps
  \/ IF EndsWithSep(ps) THEN StartsWith(n, ps) ELSE StartsWith(n, ps \o <<SEP>>)

\* the tree named n is a leading directory of pathspec ps
Leading(n, ps) == StartsWith(ps, n \o <<SEP>>)

\* the directory an entry is in (<<>> for the top level)
Dirname(n) == IF Len(n) <= 2 THEN <<>> ELSE SubSeq(n, 1, Len(n) - 2)

\* git ls-tree -z [-r [-t]] [-l] rev -- ps : the lines printed, each split as
\* ls_tree_rx splits it
GitLsTree(R, rev, ps, r, t, l) ==
  LET Shown(e) ==
        IF r
        THEN \/ Under(e.name, ps) /\ (t \/ ~IsTreeEntry(e))
             \/ t /\ IsTreeEntry(e) /\ Leading(e.name, ps)
        ELSE \/ /\ Under(e.name, ps)
                /\ Dirname(e.name) = <<>> \/ Leading(Dirname(e.name), ps)
             \/ t /\ IsTreeEntry(e) /\ Leading(e.name, ps)
      Line(e) ==
        [mode |-> e.mode,
         type |-> IF IsTreeEntry(e) THEN "tree" ELSE "blob",
         object |-> e.object,
         size |-> IF l THEN e.size ELSE <<>>,
         name |-> e.name]
      shown == SelectSeq(Tree(R, rev), Shown)
  IN [i \in 1 .. Len(shown) |-> Line(shown[i])]

\* what rev has at the path named n: <<mode, object>>, or <<>> for nothing
EntryAt(R, rev, n) ==
  LET hits == SelectSeq(Tree(R, rev), LAMBDA e : e.name = n)
  IN IF hits = <<>> THEN <<>> ELSE <<hits[1].mode, hits[1].object>>

\* git log --pretty=format:%H -1 rev -- n : the last commit up to rev that
\* changed what is at n
GitLogLast(R, rev, n) ==
  LET changed == {i \in 1 .. rev : EntryAt(R, i, n) # EntryAt(R, i - 1, n)}
  IN CHOOSE i \in changed : \A j \in changed : j <= i

\* git cat-file blob rev:n : exit status 0 and the bytes of the blob, or a
\* nonzero status when rev has no blob at n
GitCatFile(R, rev, n) ==
  LET hits == SelectSeq(Tree(R, rev), LAMBDA e : e.name = n /\ ~IsTreeEntry(e))
  IN IF hits = <<>> THEN [status |-> 128, stdout |-> <<>>]
     ELSE [status |-> 0, stdout |-> Content(hits[1].object)]

(***************************************************************************)
(* GitRepo.ls, cat and readlink.  Each returns a record: the outcome ("ok" *)
(* or the exception raised), the value returned, the object cache as the   *)
(* call leaves it, the blobs it read with cat-file and the paths it ran a  *)
(* history search (git log) for.                                           *)
(***************************************************************************)
EmptyCache == [object \in {} |-> 0]

Ok(value, c, reads, searches) ==
  [outcome |-> "ok", value |-> value, cache |-> c, reads |-> reads, searches |-> searches]

Raise(exception, c, reads, searches) ==
  [outcome |-> exception, value |-> <<>>, cache |-> c, reads |-> reads,
   searches |-> searches]

\* int(m.group('size')) succeeds on a run of digits only
IsNumber(size) == size # <<>> /\ \A i \in 1 .. Len(size) : size[i] \in 0 .. 9

RECURSIVE DecToInt(_)
DecToInt(digits) ==
  IF digits = <<>> THEN 0
  ELSE 10 * DecToInt(SubSeq(digits, 1, Len(digits) - 1)) + digits[Len(digits)]

\* GitRepo._readlink and GitRepo._cat: _command raises CalledProcessError on a
\* nonzero exit status
_readlink(R, rev, path) == GitCatFile(R, rev, path)
_cat(R, rev, path) == GitCatFile(R, rev, path)

\* ls, the first lines: the path is cleaned, and a trailing separator together
\* with directory=True is remembered as forcedir and stripped
LsPath(path, directory) ==
  LET cleaned == cleanPath(path)
      forcedir == directory /\ EndsWithSep(cleaned)
  IN [forcedir |-> forcedir, path |-> IF forcedir THEN RStrip(cleaned) ELSE cleaned]

\* the existence check with `if not m: raise` left out
LsExists_unchecked(R, rev, path, directory, forcedir) ==
  IF path = <<>> THEN [do |-> IF directory THEN "root" ELSE "list", path |-> path]
  ELSE
    LET output == GitLsTree(R, rev, path, FALSE, FALSE, FALSE)
    IN IF output = <<>> THEN [do |-> "list", path |-> path]
       ELSE IF output[1].type = "tree"
       THEN [do |-> "list",
             path |-> IF ~(directory \/ EndsWithSep(path)) THEN path \o <<SEP>>
                      ELSE path]
       ELSE IF forcedir THEN [do |-> "PathDoesNotExist", path |-> path]
       ELSE [do |-> "list", path |-> path]

\* the existence check with `elif forcedir: raise` left out
LsExists_unforced(R, rev, path, directory, forcedir) ==
  IF path = <<>> THEN [do |-> IF directory THEN "root" ELSE "list", path |-> path]
  ELSE
    LET output == GitLsTree(R, rev, path, FALSE, FALSE, FALSE)
    IN IF output = <<>> THEN [do |-> "PathDoesNotExist", path |-> path]
       ELSE IF output[1].type = "tree"
       THEN [do |-> "list",
             path |-> IF ~(directory \/ EndsWithSep(path)) THEN path \o <<SEP>>
                      ELSE path]
       ELSE [do |-> "list", path |-> path]

\* the existence check appending the separator to every tree, `directory` or not
LsExists_contents(R, rev, path, directory, forcedir) ==
  IF path = <<>> THEN [do |-> IF directory THEN "root" ELSE "list", path |-> path]
  ELSE
    LET output == GitLsTree(R, rev, path, FALSE, FALSE, FALSE)
    IN IF output = <<>> THEN [do |-> "PathDoesNotExist", path |-> path]
       ELSE IF output[1].type = "tree"
       THEN [do |-> "list",
             path |-> IF ~EndsWithSep(path) THEN path \o <<SEP>> ELSE path]
       ELSE IF forcedir THEN [do |-> "PathDoesNotExist", path |-> path]
       ELSE [do |-> "list", path |-> path]

\* ls, "make sure the path exists": what to do next ("list", "root" for the
\* early return of the root's own entry, or the exception) and the path to list
LsExists(R, rev, path, directory, forcedir) ==
  IF path = <<>> THEN [do |-> IF directory THEN "root" ELSE "list", path |-> path]
  ELSE
    LET output == GitLsTree(R, rev, path, FALSE, FALSE, FALSE)
    IN IF output = <<>> THEN [do |-> "PathDoesNotExist", path |-> path]
       ELSE IF output[1].type = "tree"
       THEN [do |-> "list",
             path |-> IF ~(directory \/ EndsWithSep(path)) THEN path \o <<SEP>>
                      ELSE path]
       ELSE IF forcedir THEN [do |-> "PathDoesNotExist", path |-> path]
       ELSE [do |-> "list", path |-> path]

\* the attributes ls gives an entry for a line of output; "skip" stands for
\* `continue`, anything else but "add" for the exception raised
LsEntry(q, line) ==
  LET mode == OctToInt(line.mode)
      entry_name == LStrip(SubSeq(line.name, q.ltrim + 1, Len(line.name)))
      named == IF entry_name # <<>> THEN [name |-> entry_name] ELSE <<>>
      link == _readlink(q.repo, q.rev, line.name)
  IN IF S_ISDIR(mode) THEN [do |-> "add", entry |-> named @@ [type |-> "d"]]
     ELSE IF q.forcedir THEN [do |-> "skip"]
     ELSE IF S_ISREG(mode)
     THEN IF "size" \in q.report /\ ~IsNumber(line.size) THEN [do |-> "ValueError"]
          ELSE [do |-> "add",
                entry |-> named @@ [type |-> "f"]
                   @@ (IF "executable" \in q.report
                       THEN [executable |-> S_IXUSR(mode)] ELSE <<>>)
                   @@ (IF "size" \in q.report
                       THEN [size |-> DecToInt(line.size)] ELSE <<>>)]
     ELSE IF S_ISLNK(mode)
     THEN IF "target" \notin q.report THEN [do |-> "add", entry |-> named @@ [type |-> "l"]]
          ELSE IF link.status # 0 THEN [do |-> "CalledProcessError"]
          ELSE [do |-> "add", entry |-> named @@ [type |-> "l"] @@ [target |-> link.stdout]]
     ELSE [do |-> "AssertionError"]

\* the loop of ls had it searched the history and stored the result for every
\* line, without looking into the cache first
RECURSIVE LsLoop_refreshing(_, _, _, _, _, _, _)
LsLoop_refreshing(q, lines, i, results, c, reads, searches) ==
  IF i > Len(lines) THEN Ok(results, c, reads, searches)
  ELSE
    LET line == lines[i]
        e == LsEntry(q, line)
        commit == GitLogLast(q.repo, q.rev, line.name)
        cached == "commit" \in q.report
    IN IF q.recursive_dirs /\ q.path = line.name \o <<SEP>>
       THEN LsLoop_refreshing(q, lines, i + 1, results, c, reads, searches)
       ELSE IF ~StartsWith(line.name, q.path)
       THEN Raise("AssertionError", c, reads, searches)
       ELSE IF e.do = "skip"
       THEN LsLoop_refreshing(q, lines, i + 1, results, c, reads, searches)
       ELSE IF e.do # "add" THEN Raise(e.do, c, reads, searches)
       ELSE LsLoop_refreshing(q, lines, i + 1,
                   Append(results,
                          IF cached THEN e.entry @@ [commit |-> commit] ELSE e.entry),
                   IF cached THEN (line.object :> commit) @@ c ELSE c,
                   IF "target" \in DOMAIN e.entry THEN reads \cup {line.name} ELSE reads,
                   IF cached THEN searches \cup {line.name} ELSE searches)

\* the loop of ls over the lines of output, from line i on
RECURSIVE LsLoop(_, _, _, _, _, _, _)
LsLoop(q, lines, i, results, c, reads, searches) ==
  IF i > Len(lines) THEN Ok(results, c, reads, searches)
  ELSE
    LET line == lines[i]
        e == LsEntry(q, line)
        hit == line.object \in DOMAIN c
        commit == IF hit THEN c[line.object] ELSE GitLogLast(q.repo, q.rev, line.name)
        cached == "commit" \in q.report
    IN IF q.recursive_dirs /\ q.path = line.name \o <<SEP>>
       THEN LsLoop(q, lines, i + 1, results, c, reads, searches)
       ELSE IF ~StartsWith(line.name, q.path)
       THEN Raise("AssertionError", c, reads, searches)
       ELSE IF e.do = "skip"
       THEN LsLoop(q, lines, i + 1, results, c, reads, searches)
       ELSE IF e.do # "add" THEN Raise(e.do, c, reads, searches)
       ELSE LsLoop(q, lines, i + 1,
                   Append(results,
                          IF cached THEN e.entry @@ [commit |-> commit] ELSE e.entry),
                   IF cached /\ ~hit THEN c @@ (line.object :> commit) ELSE c,
                   IF "target" \in DOMAIN e.entry THEN reads \cup {line.name} ELSE reads,
                   IF cached /\ ~hit THEN searches \cup {line.name} ELSE searches)

\* GitRepo.ls
ls(R, c, rev, path, recursive, recursive_dirs, directory, report) ==
  LET p == LsPath(path, directory)
      found == LsExists(R, rev, p.path, directory, p.forcedir)
      output == GitLsTree(R, rev, found.path, recursive, recursive /\ recursive_dirs,
                          "size" \in report)
      q == [repo |-> R, rev |-> rev, path |-> found.path, ltrim |-> Len(p.path),
            forcedir |-> p.forcedir, recursive_dirs |-> recursive_dirs,
            report |-> report]
  IN IF found.do = "root" THEN Ok(<<[type |-> "d"]>>, c, {}, {})
     ELSE IF found.do # "list" THEN Raise(found.do, c, {}, {})
     \* ''.split('\0') is [''], which ls_tree_rx does not match
     ELSE IF output = <<>> THEN Raise("AssertionError", c, {}, {})
     ELSE LsLoop(q, output, 1, <<>>, c, {}, {})

\* cat with the check of the entry's type left out
cat_any_type(path, listing, blob) ==
  IF listing.outcome # "ok" THEN listing
  ELSE IF Len(listing.value) # 1
  THEN Raise("AssertionError", listing.cache, listing.reads, listing.searches)
  ELSE IF blob.status # 0
  THEN Raise("CalledProcessError", listing.cache, listing.reads \cup {path},
             listing.searches)
  ELSE Ok(blob.stdout, listing.cache, listing.reads \cup {path}, listing.searches)

\* GitRepo.cat after `ls = self.ls(rev, path, directory=True)`: path is the
\* cleaned path, listing what ls returned or raised, blob what _cat gives
cat_listed(path, listing, blob) ==
  IF listing.outcome # "ok" THEN listing
  ELSE IF Len(listing.value) # 1
  THEN Raise("AssertionError", listing.cache, listing.reads, listing.searches)
  ELSE IF listing.value[1].type # "f"
  THEN Raise("BadFileType", listing.cache, listing.reads, listing.searches)
  ELSE IF blob.status # 0
  THEN Raise("CalledProcessError", listing.cache, listing.reads \cup {path},
             listing.searches)
  ELSE Ok(blob.stdout, listing.cache, listing.reads \cup {path}, listing.searches)

\* GitRepo.cat
cat(R, c, rev, path) ==
  cat_listed(cleanPath(path),
             ls(R, c, rev, cleanPath(path), FALSE, FALSE, TRUE, {}),
             _cat(R, rev, cleanPath(path)))

\* readlink refusing directories only
readlink_not_dir(path, listing, blob) ==
  IF listing.outcome # "ok" THEN listing
  ELSE IF Len(listing.value) # 1
  THEN Raise("AssertionError", listing.cache, listing.reads, listing.searches)
  ELSE IF listing.value[1].type = "d"
  THEN Raise("BadFileType", listing.cache, listing.reads, listing.searches)
  ELSE IF blob.status # 0
  THEN Raise("CalledProcessError", listing.cache, listing.reads \cup {path},
             listing.searches)
  ELSE Ok(blob.stdout, listing.cache, listing.reads \cup {path}, listing.searches)

\* GitRepo.readlink after `ls = self.ls(rev, path, directory=True)`
readlink_listed(path, listing, blob) ==
  IF listing.outcome # "ok" THEN listing
  ELSE IF Len(listing.value) # 1
  THEN Raise("AssertionError", listing.cache, listing.reads, listing.searches)
  ELSE IF listing.value[1].type # "l"
  THEN Raise("BadFileType", listing.cache, listing.reads, listing.searches)
  ELSE IF blob.status # 0
  THEN Raise("CalledProcessError", listing.cache, listing.reads \cup {path},
             listing.searches)
  ELSE Ok(blob.stdout, listing.cache, listing.reads \cup {path}, listing.searches)

\* GitRepo.readlink
readlink(R, c, rev, path) ==
  readlink_listed(cleanPath(path),
                  ls(R, c, rev, cleanPath(path), FALSE, FALSE, TRUE, {}),
                  _readlink(R, rev, cleanPath(path)))

(***************************************************************************)
(* The arguments the client calls with.                                    *)
(***************************************************************************)
\* the names of a path, without the separators
Components(n) == SelectSeq(n, LAMBDA x : x # SEP)

\* what exists at some revision, and the repository root
Existing(R) ==
  {<<>>} \cup UNION {{Components(Tree(R, rev)[i].name) : i \in 1 .. Len(Tree(R, rev))} :
                       rev \in Revs(R)}

\* the directories of some revision, and the repository root
Directories(R) ==
  {<<>>} \cup UNION {{Components(Tree(R, rev)[i].name) :
                        i \in {j \in 1 .. Len(Tree(R, rev)) : IsTreeEntry(Tree(R, rev)[j])}} :
                       rev \in Revs(R)}

\* names of nothing: z in every directory, and z below the first file
Missing(R) ==
  {d \o <<"z">> : d \in Directories(R)} \cup {Components(Tree(R, 1)[1].name) \o <<"z">>}

Targets(R) == Existing(R) \cup Missing(R)

Slashes(k) == [i \in 1 .. k |-> SEP]

RECURSIVE Join(_, _)
Join(names, k) ==
  IF Len(names) <= 1 THEN names
  ELSE <<Head(names)>> \o Slashes(k) \o Join(Tail(names), k)

\* a way to write a target: with or without leading and trailing separators,
\* every separator written k times
MkPath(names, lead, trail, k) ==
  (IF lead THEN Slashes(k) ELSE <<>>) \o Join(names, k)
     \o (IF trail THEN Slashes(k) ELSE <<>>)

\* each target written plainly (a, c/d), with a leading separator (/a), with a
\* leading and a trailing one (/c/d/), and with longer runs of separators at
\* every place (//c//d//)
Paths(R) ==
  {MkPath(t, w[1], w[2], 1) :
     t \in Targets(R), w \in {<<FALSE, FALSE>>, <<TRUE, FALSE>>, <<TRUE, TRUE>>}}
    \cup {MkPath(t, TRUE, TRUE, k) : t \in Targets(R), k \in 2 .. MaxSlashes}

\* the values of report that ls recognizes
ReportKeys == {"size", "target", "executable", "commit"}

NoCall == [op |-> "none"]
NoRet == [outcome |-> "none"]

(***************************************************************************)
(* The state machine.                                                      *)
(***************************************************************************)
Init ==
  /\ repo \in Repos
  /\ cache = EmptyCache
  /\ pc = "ready"
  /\ ncalls = 0
  /\ call = NoCall
  /\ ret = NoRet

Returned(r) ==
  /\ ret' = [outcome |-> r.outcome, value |-> r.value, reads |-> r.reads,
             searches |-> r.searches]
  /\ cache' = r.cache
  /\ pc' = "returned"
  /\ ncalls' = ncalls + 1
  /\ UNCHANGED repo

\* the client calls repo.ls(rev, path, recursive, recursive_dirs, directory, report)
Ls ==
  /\ pc = "ready"
  /\ ncalls < MaxCalls
  /\ \E rev \in Revs(repo), path \in Paths(repo), report \in SUBSET ReportKeys,
        recursive \in BOOLEAN, recursive_dirs \in BOOLEAN, directory \in BOOLEAN :
       /\ call' = [op |-> "ls", rev |-> rev, path |-> path, recursive |-> recursive,
                   recursive_dirs |-> recursive_dirs, directory |-> directory,
                   report |-> report]
       /\ Returned(ls(repo, cache, rev, path, recursive, recursive_dirs, directory,
                      report))

\* the client calls repo.cat(rev, path)
Cat ==
  /\ pc = "ready"
  /\ ncalls < MaxCalls
  /\ \E rev \in Revs(repo), path \in Paths(repo) :
       /\ call' = [op |-> "cat", rev |-> rev, path |-> path]
       /\ Returned(cat(repo, cache, rev, path))

\* the client calls repo.readlink(rev, path)
Readlink ==
  /\ pc = "ready"
  /\ ncalls < MaxCalls
  /\ \E rev \in Revs(repo), path \in Paths(repo) :
       /\ call' = [op |-> "readlink", rev |-> rev, path |-> path]
       /\ Returned(readlink(repo, cache, rev, path))

\* the client has its result (or exception) and is ready for the next call
Return ==
  /\ pc = "returned"
  /\ pc' = "ready"
  /\ call' = NoCall
  /\ ret' = NoRet
  /\ UNCHANGED <<repo, cache, ncalls>>

Next == Ls \/ Cat \/ Readlink \/ Return

Spec == Init /\ [][Next]_vars

\* the same client on the repository whose last commit deleted every file
InitEmptied ==
  /\ repo = "EmptyWithCommitsTest"
  /\ cache = EmptyCache
  /\ pc = "ready"
  /\ ncalls = 0
  /\ call = NoCall
  /\ ret = NoRet

SpecEmptied == InitEmptied /\ [][Next]_vars

(***************************************************************************)
(* Histories.  The tests build each repository by pushing from a working   *)
(* copy to a bare repository made by GitRepo.create; commits are numbered  *)
(* in the order they are made, and Commit and Merge sleep one second, so a *)
(* commit's number also orders its date.  A revision argument is a string: *)
(* a branch name or a commit's hash.                                       *)
(***************************************************************************)
HistoryRepos ==
  {"EmptyTest", "EmptyMainBranchTest", "EmptyWithCommitsTest", "UnrelatedBranchTest",
   "BranchTestStep7", "CopyTest"}

\* HEAD of a bare repository made by `git init --bare`
HEAD_BRANCH == "master"

\* the hash of the commit made n-th
Hashes == <<"c1", "c2", "c3", "c4", "c5", "c6">>
Hash(c) == Hashes[c]

\* rev_rx = ^[0-9a-fA-F]{40}$ on one word
IsHash(word) == \E c \in 1 .. Len(Hashes) : Hashes[c] = word
CommitOf(word) == CHOOSE c \in 1 .. Len(Hashes) : Hashes[c] = word

\* setup_branch_test up to step 7, as git records it:
\*   c1 "2: modify a" (master), c2 "4: modify b" (branch1, from c1),
\*   c3 "5: modify c" (master), c4 "7: modify c" (branch2, from c3),
\*   c5 merge of master into branch1, c6 "10: modify b" (branch1a, from c5)
Step7Parents == << <<>>, <<1>>, <<1>>, <<3>>, <<2, 3>>, <<5>> >>

\* the parents of commit c, first parent first
Parents(R, c) ==
  CASE R = "BranchTestStep7" -> Step7Parents[c]
    [] R = "UnrelatedBranchTest" -> <<>>
    [] OTHER -> IF c = 1 THEN <<>> ELSE <<c - 1>>

\* the branches of the bare repository and the commits they point to
Branches(R) ==
  CASE R = "EmptyTest" -> [b \in {} |-> 0]
    [] R = "EmptyMainBranchTest" -> ("branch1" :> 1)
    [] R = "EmptyWithCommitsTest" -> ("master" :> 2)
    [] R = "UnrelatedBranchTest" -> ("master" :> 1) @@ ("branch1" :> 2)
    [] R = "BranchTestStep7" ->
         ("master" :> 3) @@ ("branch1" :> 5) @@ ("branch2" :> 4) @@ ("branch1a" :> 6)
    [] R = "CopyTest" -> ("master" :> 5)
    [] R = "BasicTest" -> ("master" :> 1)
    [] R = "CacheTest" -> ("master" :> 1)

\* the message of commit c as `git commit -m` stores it: the text and a newline
Subjects(R) ==
  CASE R = "EmptyMainBranchTest" -> << "create a" >>
    [] R = "CacheTest" -> << "modify a" >>
    [] R = "EmptyWithCommitsTest" -> << "create a", "delete a" >>
    [] R = "UnrelatedBranchTest" -> << "modify a", "modify b" >>
    [] R = "BranchTestStep7" ->
         << "2: modify a", "4: modify b", "5: modify c", "7: modify c",
            "merge master", "10: modify b" >>
    [] R = "CopyTest" ->
         << "1: create main", "2: create copy", "3: create revert", "4: change revert",
            "5: revert revert" >>
    [] OTHER -> << >>

Message(R, c) == << Subjects(R)[c], "\n" >>

\* the commit a revision names, 0 when it names none
Resolve(R, rev) ==
  IF rev = "HEAD"
  THEN IF HEAD_BRANCH \in DOMAIN Branches(R) THEN Branches(R)[HEAD_BRANCH] ELSE 0
  ELSE IF rev \in DOMAIN Branches(R) THEN Branches(R)[rev]
  ELSE IF IsHash(rev) /\ CommitOf(rev) <= NumCommits(R) THEN CommitOf(rev)
  ELSE 0

\* the parents git log walks to from c (the first only, with --first-parent)
Walked(R, c, firstparent) ==
  {Parents(R, c)[i] : i \in {j \in 1 .. Len(Parents(R, c)) : firstparent => j = 1}}

\* the commits reachable from the commits of S
RECURSIVE Reach(_, _, _)
Reach(R, S, firstparent) ==
  IF \A c \in S : Walked(R, c, firstparent) \subseteq S THEN S
  ELSE Reach(R, S \cup UNION {Walked(R, c, firstparent) : c \in S}, firstparent)

\* every ref of the repository
AllRefs(R) == {Branches(R)[b] : b \in DOMAIN Branches(R)}

\* a set of commits, newest date first
RECURSIVE ByDate(_)
ByDate(S) ==
  IF S = {} THEN <<>>
  ELSE <<CHOOSE c \in S : \A d \in S : d <= c>>
         \o ByDate(S \ {CHOOSE c \in S : \A d \in S : d <= c})

\* the NUL character of -z output
NUL == "^@"

\* what a git command run in the repository's directory ends with
Run(status, stdout, stderr) == [status |-> status, stdout |-> stdout, stderr |-> stderr]

\* str.split(sep, maxsplit) on a sequence of characters; maxsplit -1 is "no limit"
RECURSIVE Split(_, _, _)
Split(s, sep, maxsplit) ==
  IF maxsplit = 0 \/ \A i \in 1 .. Len(s) : s[i] # sep THEN <<s>>
  ELSE <<SubSeq(s, 1, (CHOOSE i \in 1 .. Len(s) :
                         s[i] = sep /\ \A j \in 1 .. i - 1 : s[j] # sep) - 1)>>
       \o Split(SubSeq(s, (CHOOSE i \in 1 .. Len(s) :
                             s[i] = sep /\ \A j \in 1 .. i - 1 : s[j] # sep) + 1, Len(s)),
                sep, maxsplit - 1)

\* str.splitlines(): a newline at the very end opens no further line
SplitLines(s) ==
  IF s = <<>> THEN <<>>
  ELSE IF s[Len(s)] = "\n" THEN Split(SubSeq(s, 1, Len(s) - 1), "\n", -1)
  ELSE Split(s, "\n", -1)

IsSpace(ch) == ch \in {" ", "\n"}

\* str.split() of a line of words
SplitWords(s) == SelectSeq(s, LAMBDA ch : ~IsSpace(ch))

\* str.rstrip()
RECURSIVE RStripSpace(_)
RStripSpace(s) ==
  IF s # <<>> /\ IsSpace(s[Len(s)]) THEN RStripSpace(SubSeq(s, 1, Len(s) - 1)) ELSE s

\* the lines `Hash\n` of a sequence of commits
RECURSIVE HashLines(_)
HashLines(commits) ==
  IF commits = <<>> THEN <<>>
  ELSE <<Hash(Head(commits)), "\n">> \o HashLines(Tail(commits))

\* git rev-parse HEAD, in the bare repository's directory: when HEAD's branch
\* has no commit, the word HEAD names the file HEAD there and is echoed
GitRevParseHEAD(R) ==
  IF Resolve(R, "HEAD") # 0 THEN Run(0, <<Hash(Resolve(R, "HEAD")), "\n">>, <<>>)
  ELSE Run(0, <<"HEAD", "\n">>, <<>>)

\* git rev-list --all
GitRevListAll(R) == Run(0, HashLines(ByDate(Reach(R, AllRefs(R), FALSE))), <<>>)

\* a variant that holds for any output at all
rev_rx_match_any(stdout) == Len(stdout) >= 0

\* rev_rx.match(stdout): one hash, then the end or a last newline
rev_rx_match(stdout) ==
  /\ Len(stdout) \in {1, 2}
  /\ IsHash(stdout[1])
  /\ Len(stdout) = 2 => stdout[2] = "\n"

\* GitRepo.empty
empty(R) == ~rev_rx_match(GitRevParseHEAD(R).stdout)

\* GitRepo.__len__
__len__(R) == Len(SplitLines(GitRevListAll(R).stdout))

\* the arguments of log: None is <<>>, a given value v is <<v>>; revrange is
\* None, one revision, or a pair whose ends may each be None
NoRange == [form |-> "none", from |-> <<>>, to |-> <<>>]
OneRev(rev) == [form |-> "single", from |-> <<rev>>, to |-> <<>>]
Pair(from, to) == [form |-> "pair", from |-> from, to |-> to]

\* GitRepo.log, the command line it builds, option by option
LogCmd(revrange, limit, firstparent, merges, path, follow) ==
  [limit |-> limit,
   firstparent |-> firstparent,
   merges |-> merges,
   revs |-> IF revrange.form = "none" THEN <<"--all">>
            ELSE IF revrange.form = "pair"
            THEN IF revrange.from = <<>>
                 THEN IF revrange.to = <<>> THEN <<"--all">> ELSE revrange.to
                 ELSE IF revrange.to = <<>> THEN revrange.from \o <<"..">>
                      ELSE revrange.from \o <<"..">> \o revrange.to
            ELSE <<"-1">> \o revrange.from,
   follow |-> path # <<>> /\ path[1] # <<>> /\ follow,
   path |-> IF path # <<>> /\ path[1] # <<>> THEN <<cleanPath(path[1])>> ELSE <<>>]

\* the commits git log starts from, and those whose ancestry it leaves out;
\* 0 stands for a revision that names nothing
LogTips(R, revs) ==
  IF revs = <<"--all">> THEN AllRefs(R) \cup {Resolve(R, "HEAD")}
  ELSE IF Len(revs) = 1 THEN {Resolve(R, revs[1])}
  ELSE IF revs[1] = "-1" THEN {Resolve(R, revs[2])}
  ELSE IF Len(revs) = 2 THEN {Resolve(R, "HEAD")}
  ELSE {Resolve(R, revs[3])}

LogExcluded(R, revs) ==
  IF Len(revs) >= 2 /\ revs[2] = ".." THEN {Resolve(R, revs[1])} ELSE {}

\* the commit changes something the pathspec selects, against its first parent
Touches(R, c, ps) ==
  SelectSeq(Tree(R, c), LAMBDA e : Under(e.name, ps))
    # SelectSeq(Tree(R, IF Parents(R, c) = <<>> THEN 0 ELSE Parents(R, c)[1]),
                LAMBDA e : Under(e.name, ps))

\* the commits git log shows, before -<n> cuts the list
LogShown(R, cmd) ==
  {c \in Reach(R, LogTips(R, cmd.revs), cmd.firstparent)
          \ Reach(R, LogExcluded(R, cmd.revs), FALSE) :
     /\ cmd.merges # <<>> => (cmd.merges[1] <=> Len(Parents(R, c)) > 1)
     /\ cmd.path # <<>> => Touches(R, c, cmd.path[1])}

\* -<n>: the last one on the command line counts
LogCount(cmd) ==
  IF cmd.revs[1] = "-1" THEN <<1>> ELSE cmd.limit

FirstN(s, n) == SubSeq(s, 1, IF n < Len(s) THEN n ELSE Len(s))

\* words joined by single spaces
RECURSIVE JoinWords(_)
JoinWords(words) ==
  IF Len(words) <= 1 THEN words
  ELSE <<Head(words), " ">> \o JoinWords(Tail(words))

\* the date and author lines of a commit: one word each here
Dates == <<"t1", "t2", "t3", "t4", "t5", "t6">>
AUTHOR == "n <a@b>"

\* --pretty=format:%H%n%P%n%ai%n%an <%ae>%n%B for one commit
LogRecord(R, c) ==
  <<Hash(c), "\n">>
    \o JoinWords([i \in 1 .. Len(Parents(R, c)) |-> Hash(Parents(R, c)[i])])
    \o <<"\n", Dates[c], "\n", AUTHOR, "\n">> \o Message(R, c)

\* -z: a NUL between records, none after the last
RECURSIVE LogRecords(_, _)
LogRecords(R, commits) ==
  IF commits = <<>> THEN <<>>
  ELSE IF Len(commits) = 1 THEN LogRecord(R, commits[1])
  ELSE LogRecord(R, commits[1]) \o <<NUL>> \o LogRecords(R, Tail(commits))

\* git log run on the command line: newest commit first (dates follow the order
\* of creation, so this is also descendants first)
GitLog(R, cmd) ==
  IF 0 \in LogTips(R, cmd.revs) \cup LogExcluded(R, cmd.revs)
  THEN Run(128, <<>>, <<"fatal: bad revision">>)
  ELSE Run(0,
           LogRecords(R, IF LogCount(cmd) = <<>> THEN ByDate(LogShown(R, cmd))
                         ELSE FirstN(ByDate(LogShown(R, cmd)), LogCount(cmd)[1])),
           <<>>)

\* git merge-base rev1 rev2: the newest common ancestor (the histories here
\* have at most one best common ancestor); exit 1 when there is none
GitMergeBase(R, rev1, rev2) ==
  IF Resolve(R, rev1) = 0 \/ Resolve(R, rev2) = 0
  THEN Run(128, <<>>, <<"fatal: Not a valid object name">>)
  ELSE IF Reach(R, {Resolve(R, rev1)}, FALSE) \cap Reach(R, {Resolve(R, rev2)}, FALSE) = {}
  THEN Run(1, <<>>, <<>>)
  ELSE Run(0,
           HashLines(FirstN(ByDate(Reach(R, {Resolve(R, rev1)}, FALSE)
                                     \cap Reach(R, {Resolve(R, rev2)}, FALSE)), 1)),
           <<>>)

\* what a call hands back: the Python type and the value of what it returns, or
\* the exception it raises and what the exception carries
Done(type, value) == [outcome |-> "ok", type |-> type, value |-> value]
Failed(exception, carried) == [outcome |-> exception, type |-> "exception", value |-> carried]

\* subprocess.CalledProcessError(returncode, cmd, output)
CalledProcessError(returncode, cmd, output) ==
  Failed("CalledProcessError", [returncode |-> returncode, cmd |-> cmd, output |-> output])

\* CommitLogEntry(rev, parents, date, author, message) from the five fields of a
\* record (the parsed date and the author are read by no property here)
LogEntry(fields) ==
  [rev |-> fields[1], parents |-> SplitWords(fields[2]), message |-> fields[5]]

\* GitRepo.log, the loop over output.split('\0')
RECURSIVE LogLoop(_, _, _, _)
LogLoop(records, i, results, single) ==
  IF i > Len(records) THEN Done("list", results)
  \* rev, parents, date, author, message = log.split('\n', 4)
  ELSE IF Len(Split(records[i], "\n", 4)) # 5 THEN Failed("ValueError", <<>>)
  ELSE IF single THEN Done("CommitLogEntry", LogEntry(Split(records[i], "\n", 4)))
  ELSE LogLoop(records, i + 1, Append(results, LogEntry(Split(records[i], "\n", 4))),
               single)

\* GitRepo.log from `output = self._command(cmd)` on: check_output raises
\* CalledProcessError with the command and the captured standard output
log_run(cmd, single, run) ==
  IF run.status # 0 THEN CalledProcessError(run.status, cmd, run.stdout)
  ELSE LogLoop(Split(run.stdout, NUL, -1), 1, <<>>, single)

\* GitRepo.log
log(R, revrange, limit, firstparent, merges, path, follow) ==
  IF empty(R) THEN Done("list", <<>>)
  ELSE log_run(LogCmd(revrange, limit, firstparent, merges, path, follow),
               revrange.form = "single",
               GitLog(R, LogCmd(revrange, limit, firstparent, merges, path, follow)))

\* ancestor had it run git as _command does: every nonzero exit is a failure
ancestor_run_checked(cmd, run) ==
  IF run.status = 0 THEN Done("str", RStripSpace(run.stdout))
  ELSE CalledProcessError(run.status, cmd, run.stderr)

\* GitRepo.ancestor after p.communicate()
ancestor_run(cmd, run) ==
  IF run.status = 0 THEN Done("str", RStripSpace(run.stdout))
  ELSE IF run.status = 1 THEN Done("NoneType", <<>>)
  ELSE CalledProcessError(run.status, cmd, run.stderr)

\* GitRepo.ancestor
ancestor(R, rev1, rev2) ==
  ancestor_run(<<"merge-base", rev1, rev2>>, GitMergeBase(R, rev1, rev2))

(***************************************************************************)
(* The client of a repository's history.                                   *)
(***************************************************************************)
\* largest limit the client passes to log
MaxLimit == 2

\* None or one of S
Opt(S) == {<<>>} \cup {<<x>> : x \in S}

\* revisions the client names: branches, hashes, and a name that is no revision
RevArgs(R) ==
  {"master", "nosuch"} \cup DOMAIN Branches(R) \cup {Hash(c) : c \in 1 .. NumCommits(R)}

RevRanges(R) ==
  {NoRange} \cup {OneRev(rev) : rev \in RevArgs(R)}
    \cup {Pair(from, to) : from \in Opt(RevArgs(R)), to \in Opt(RevArgs(R))}

\* paths the client passes to log: None, '', and in the linear history whose
\* trees are modelled a file that exists and one that never did
LogPaths(R) ==
  IF R \in {"EmptyTest", "EmptyWithCommitsTest"}
  THEN {<<>>, << <<>> >>, << <<SEP, "a">> >>, << <<SEP, "z">> >>}
  ELSE {<<>>, << <<>> >>}

InitHistory ==
  /\ repo \in HistoryRepos
  /\ cache = EmptyCache
  /\ pc = "ready"
  /\ ncalls = 0
  /\ call = NoCall
  /\ ret = NoRet

Answered(r) ==
  /\ ret' = r
  /\ pc' = "returned"
  /\ ncalls' = ncalls + 1
  /\ UNCHANGED <<repo, cache>>

\* the client calls repo.empty()
Empty ==
  /\ pc = "ready"
  /\ ncalls < MaxCalls
  /\ call' = [op |-> "empty"]
  /\ Answered(Done("bool", empty(repo)))

\* the client calls len(repo)
Length ==
  /\ pc = "ready"
  /\ ncalls < MaxCalls
  /\ call' = [op |-> "len"]
  /\ Answered(Done("int", __len__(repo)))

\* the client calls repo.log(revrange, limit, firstparent, merges, path, follow)
Log ==
  /\ pc = "ready"
  /\ ncalls < MaxCalls
  /\ \E revrange \in RevRanges(repo), limit \in Opt(0 .. MaxLimit),
        firstparent \in BOOLEAN, merges \in Opt(BOOLEAN), path \in LogPaths(repo),
        follow \in BOOLEAN :
       /\ call' = [op |-> "log", revrange |-> revrange, limit |-> limit,
                   firstparent |-> firstparent, merges |-> merges, path |-> path,
                   follow |-> follow]
       /\ Answered(log(repo, revrange, limit, firstparent, merges, path, follow))

\* the client calls repo.ancestor(rev1, rev2)
Ancestor ==
  /\ pc = "ready"
  /\ ncalls < MaxCalls
  /\ \E rev1 \in RevArgs(repo), rev2 \in RevArgs(repo) :
       /\ call' = [op |-> "ancestor", rev1 |-> rev1, rev2 |-> rev2]
       /\ Answered(ancestor(repo, rev1, rev2))

NextHistory == Empty \/ Length \/ Log \/ Ancestor \/ Return

SpecHistory == InitHistory /\ [][NextHistory]_vars

(***************************************************************************)
(* What the repository holds, read off its trees: the yardstick the        *)
(* results of the adapter are measured against.                            *)
(***************************************************************************)
\* the tree entries of rev whose names are `names`
EntriesAt(R, rev, names) ==
  {Tree(R, rev)[i] : i \in {j \in 1 .. Len(Tree(R, rev)) :
                              Components(Tree(R, rev)[j].name) = names}}

\* what `names` is at rev: "d", "f", "l", or "none"; the root is a directory
Kind(R, rev, names) ==
  IF names = <<>> THEN "d"
  ELSE IF EntriesAt(R, rev, names) = {} THEN "none"
  ELSE LET e == CHOOSE x \in EntriesAt(R, rev, names) : TRUE
       IN IF e.mode = MODE_TREE THEN "d" ELSE IF e.mode = MODE_LINK THEN "l" ELSE "f"

\* the entry of a file or link
TheEntry(R, rev, names) == CHOOSE x \in EntriesAt(R, rev, names) : TRUE

\* everything strictly below the directory `names`
Below(R, rev, names) ==
  {Components(Tree(R, rev)[i].name) :
     i \in {j \in 1 .. Len(Tree(R, rev)) :
              /\ Len(Components(Tree(R, rev)[j].name)) > Len(names)
              /\ SubSeq(Components(Tree(R, rev)[j].name), 1, Len(names)) = names}}

\* a call of op has returned
Called(op) == pc = "returned" /\ call.op = op

\* the names of the path argument, and whether it ends with a separator
Asked == Components(call.path)
AskedKind == Kind(repo, call.rev, Asked)
AskedDir == EndsWithSep(call.path)

\* the path argument names something: a trailing separator asks for a directory
AskedExists == AskedKind # "none" /\ (AskedDir => AskedKind = "d")

\* the names of the object a returned entry describes
EntryNames(e) ==
  IF "name" \in DOMAIN e THEN Asked \o Components(e.name) ELSE Asked

Entries == {ret.value[i] : i \in 1 .. Len(ret.value)}

(***************************************************************************)
(* The claims.                                                             *)
(***************************************************************************)

\* C1: ls of a path that names nothing at rev raises PathDoesNotExist and
\* returns no entries, whatever recursive, recursive_dirs, directory and
\* report are.
C1_MissingPathRaises ==
  (Called("ls") /\ AskedKind = "none")
    => ret.outcome = "PathDoesNotExist" /\ ret.value = <<>>

C1_Witness ==
  /\ Called("ls") /\ AskedKind = "none"
  /\ call.recursive /\ call.recursive_dirs /\ call.directory
  /\ call.report = ReportKeys
  /\ ret.outcome = "PathDoesNotExist"

\* C2: a path that ends with a separator and names a file or a symlink makes
\* ls raise PathDoesNotExist, with directory=True and with directory=False,
\* and so cat and readlink raise PathDoesNotExist, not BadFileType.
C2_SeparatorAfterNonDirectory ==
  (/\ pc = "returned" /\ call.op \in {"ls", "cat", "readlink"}
   /\ AskedDir /\ AskedKind \in {"f", "l"})
    => ret.outcome = "PathDoesNotExist"

C2_Witness ==
  /\ Called("ls") /\ call.directory /\ AskedDir /\ AskedKind = "l"
  /\ ret.outcome = "PathDoesNotExist"

\* C3: cat raises PathDoesNotExist when the path names nothing, BadFileType
\* when it names a directory, a symlink or the root, and returns the content
\* of the blob only for a regular file; whenever it raises, it has read no
\* content.
C3_Cat ==
  Called("cat") =>
    /\ ~AskedExists => ret.outcome = "PathDoesNotExist"
    /\ (AskedExists /\ AskedKind \in {"d", "l"}) => ret.outcome = "BadFileType"
    /\ (AskedExists /\ AskedKind = "f") =>
         /\ ret.outcome = "ok"
         /\ ret.value = Content(TheEntry(repo, call.rev, Asked).object)
    /\ ret.outcome = "ok" => AskedKind = "f"
    /\ ret.outcome # "ok" => ret.reads = {}

C3_Witness ==
  /\ Called("cat") /\ AskedKind = "f" /\ Len(Asked) = 3
  /\ ret.outcome = "ok" /\ ret.value = <<"Denali">>

\* C4: readlink raises PathDoesNotExist when the path names nothing,
\* BadFileType when it names a regular file, a directory or the root, and
\* returns the target only for a symlink.
C4_Readlink ==
  Called("readlink") =>
    /\ ~AskedExists => ret.outcome = "PathDoesNotExist"
    /\ (AskedExists /\ AskedKind \in {"d", "f"}) => ret.outcome = "BadFileType"
    /\ (AskedExists /\ AskedKind = "l") =>
         /\ ret.outcome = "ok"
         /\ ret.value = Content(TheEntry(repo, call.rev, Asked).object)
    /\ ret.outcome = "ok" => AskedKind = "l"

C4_Witness ==
  /\ Called("readlink") /\ AskedKind = "l" /\ Len(Asked) = 3
  /\ ret.outcome = "ok" /\ ret.value = <<"e">>

\* C5: for a path that exists (a file, a symlink, a directory at any depth with
\* or without a trailing separator, the root), ls(rev, path, directory=True)
\* returns exactly one entry, of the type of the path itself and without a
\* name.
C5_DirectoryDescribesThePath ==
  (Called("ls") /\ call.directory /\ ~call.recursive /\ AskedExists)
    => /\ ret.outcome = "ok"
       /\ Len(ret.value) = 1
       /\ ret.value[1].type = AskedKind
       /\ "name" \notin DOMAIN ret.value[1]

C5_Witness ==
  /\ Called("ls") /\ call.directory /\ ~call.recursive
  /\ AskedKind = "d" /\ Len(Asked) = 2 /\ AskedDir
  /\ ret.outcome = "ok" /\ Len(ret.value) = 1 /\ ret.value[1].type = "d"

\* C6: every entry of a non-recursive ls of an existing directory D has a
\* `path` that begins with D's normalized path and a separator (nothing, for
\* the root), and what follows that prefix is one name without a separator.
C6_EntriesHaveAPathOneLevelBelow ==
  (Called("ls") /\ ~call.recursive /\ ~call.directory /\ AskedKind = "d"
   /\ ret.outcome = "ok")
    => \A e \in Entries :
         LET prefix == IF Asked = <<>> THEN <<>> ELSE Join(Asked, 1) \o <<SEP>>
         IN /\ "path" \in DOMAIN e
            /\ StartsWith(e.path, prefix)
            /\ Len(e.path) = Len(prefix) + 1
            /\ e.path[Len(e.path)] # SEP

\* C7: for every existing directory D (the root, c, c/d), ls(rev, D,
\* recursive=True, recursive_dirs=True) succeeds, returns every directory,
\* file and symlink strictly below D, and no entry for D or an ancestor of D.
C7_RecursiveDirsBelowAnyDirectory ==
  (Called("ls") /\ call.recursive /\ call.recursive_dirs /\ ~call.directory
   /\ AskedKind = "d")
    => /\ ret.outcome = "ok"
       /\ \A e \in Entries : "name" \in DOMAIN e
       /\ {EntryNames(e) : e \in Entries} = Below(repo, call.rev, Asked)

\* C8: an entry carries size only if it is a regular file and 'size' is in
\* report, executable only if it is a regular file and 'executable' is in
\* report (and then it is true exactly when the owner-execute bit of the mode
\* is set), target only if it is a symlink and 'target' is in report; a
\* directory carries none of them, and nothing that was not asked for is there.
C8_ReportedAttributes ==
  (Called("ls") /\ ret.outcome = "ok") =>
    \A e \in Entries :
      /\ DOMAIN e \subseteq {"name", "type"} \cup call.report
      /\ "size" \in DOMAIN e => e.type = "f"
      /\ "target" \in DOMAIN e => e.type = "l"
      /\ "executable" \in DOMAIN e =>
           /\ e.type = "f"
           /\ e.executable = (TheEntry(repo, call.rev, EntryNames(e)).mode[4] % 2 = 1)

C8_Witness ==
  /\ Called("ls") /\ ret.outcome = "ok"
  /\ call.report = ReportKeys
  /\ \E e \in Entries : "executable" \in DOMAIN e /\ e.executable /\ "size" \in DOMAIN e
  /\ \E e \in Entries : "target" \in DOMAIN e

\* C9: with 'commit' in report, ls reports for a path the most recent commit
\* of rev's history that changed that path, whatever ls calls came before.
C9_CommitIsThePathsLastChange ==
  (Called("ls") /\ "commit" \in call.report /\ ret.outcome = "ok") =>
    \A e \in Entries :
      "commit" \in DOMAIN e =>
        e.commit = GitLogLast(repo, call.rev, Join(EntryNames(e), 1))

\* C10: with 'commit' in report, every entry ls returns carries a commit, the
\* root's own entry (directory=True) and directory entries included.
C10_EveryEntryHasACommit ==
  (Called("ls") /\ "commit" \in call.report /\ ret.outcome = "ok") =>
    \A e \in Entries : "commit" \in DOMAIN e

\* C11: ls of the root of a revision whose tree holds no file (every file was
\* deleted by a later commit) returns an empty list and does not fail.
C11_RootOfAnEmptyTreeListsNothing ==
  (Called("ls") /\ Asked = <<>> /\ ~call.directory /\ Tree(repo, call.rev) = <<>>)
    => ret.outcome = "ok" /\ ret.value = <<>>

(***************************************************************************)
(* The history of a repository: the yardstick and the properties.          *)
(***************************************************************************)
\* the commits on some branch of the repository
Commits(R) == Reach(R, AllRefs(R), FALSE)

\* C12: empty() returns true exactly when no branch of the repository holds a
\* commit (exactly when len(repo) is 0); it is false when the default branch
\* has no commit but another branch has one.
C12_EmptyExactlyWhenNoCommit ==
  Called("empty") => (ret.value <=> Commits(repo) = {})

\* C13: in a repository with no commits empty() is true, and log() with no
\* revision range returns an empty sequence whatever limit, firstparent,
\* merges, path and follow are.
C13_NoCommitsNoLog ==
  Commits(repo) = {} =>
    /\ Called("empty") => ret = Done("bool", TRUE)
    /\ (Called("log") /\ call.revrange = NoRange) => ret = Done("list", <<>>)

C13_Witness ==
  /\ Commits(repo) = {}
  /\ Called("log") /\ call.revrange = NoRange
  /\ call.limit # <<>> /\ call.firstparent /\ call.merges # <<>>
  /\ call.path # <<>> /\ call.path # << <<>> >> /\ call.follow
  /\ ret = Done("list", <<>>)

\* C14: what log returns is a single CommitLogEntry exactly when revrange is a
\* single revision and a sequence exactly when revrange is absent or a pair, in
\* every repository and for every combination of the other arguments.
C14_OneEntryExactlyForOneRevision ==
  (Called("log") /\ ret.outcome = "ok") =>
    /\ ret.type = "CommitLogEntry" <=> call.revrange.form = "single"
    /\ ret.type = "list" <=> call.revrange.form \in {"none", "pair"}

\* C15: log of a single revision of a repository that has no commits fails (a
\* not-found failure); it never returns a successful result.
C15_OneRevisionOfNoCommitsFails ==
  (Called("log") /\ call.revrange.form = "single" /\ Commits(repo) = {})
    => ret.outcome # "ok"

\* the commit and its ancestors
Ancestors(R, c) == Reach(R, {c}, FALSE)

\* log was called with a range alone: no limit, firstparent, merges or path
RangeAlone ==
  /\ Called("log")
  /\ call.limit = <<>> /\ ~call.firstparent /\ call.merges = <<>> /\ call.path = <<>>

\* the commits of the entries log returned, in the order returned
Logged == [i \in 1 .. Len(ret.value) |-> CommitOf(ret.value[i].rev[1])]

\* the list holds exactly the commits of S, once each, and none after one of its
\* ancestors
ListsDescendantsFirst(R, commits, S) ==
  /\ {commits[i] : i \in 1 .. Len(commits)} = S
  /\ Len(commits) = Cardinality(S)
  /\ \A i \in 1 .. Len(commits) : \A j \in i + 1 .. Len(commits) :
       commits[i] \notin Ancestors(R, commits[j])

\* C16: log((F, R)) with both ends given returns exactly the commits that are R
\* or ancestors of R and neither F nor ancestors of F, descendant before
\* ancestor (on the linear c1 -> c2 -> c3, log((c1, c3)) is [c3, c2]).
C16_BetweenTwoRevisions ==
  (/\ RangeAlone /\ call.revrange.form = "pair"
   /\ call.revrange.from # <<>> /\ call.revrange.to # <<>>
   /\ Resolve(repo, call.revrange.from[1]) # 0
   /\ Resolve(repo, call.revrange.to[1]) # 0)
    => /\ ret.outcome = "ok" /\ ret.type = "list"
       /\ ListsDescendantsFirst(repo, Logged,
            Ancestors(repo, Resolve(repo, call.revrange.to[1]))
              \ Ancestors(repo, Resolve(repo, call.revrange.from[1])))

\* C17: log((F, None)) returns all the commits reachable from any head that are
\* not reachable from F, those on branches other than HEAD's included (stated
\* here for the calls that return).
C17_EverythingNewSince ==
  (/\ RangeAlone /\ call.revrange.form = "pair"
   /\ call.revrange.from # <<>> /\ call.revrange.to = <<>>
   /\ Resolve(repo, call.revrange.from[1]) # 0
   /\ ret.outcome = "ok")
    => /\ ret.type = "list"
       /\ ListsDescendantsFirst(repo, Logged,
            Commits(repo) \ Ancestors(repo, Resolve(repo, call.revrange.from[1])))

\* C18: when git exits nonzero in a way the adapter maps to no exception of its
\* own (an unknown revision given to log), the call fails with the generic
\* execution failure, which carries the failed command and the text git wrote
\* to standard error, and nothing is returned.
C18_FailureCarriesCommandAndDiagnostic ==
  (/\ Called("log") /\ ~empty(repo)
   /\ GitLog(repo, LogCmd(call.revrange, call.limit, call.firstparent, call.merges,
                          call.path, call.follow)).status # 0)
    => /\ ret.outcome = "CalledProcessError"
       /\ ret.value.cmd = LogCmd(call.revrange, call.limit, call.firstparent,
                                 call.merges, call.path, call.follow)
       /\ ret.value.output =
            GitLog(repo, LogCmd(call.revrange, call.limit, call.firstparent,
                                call.merges, call.path, call.follow)).stderr

\* C19: ancestor(rev1, rev2) returns the common ancestor, without the newline
\* git prints after it, when git exits 0; None when the two revisions have no
\* common history (exit 1); and raises the execution failure, carrying the
\* command and standard error, on any other exit.  For two branches forked from
\* a commit X it returns X.
C19_Ancestor ==
  Called("ancestor") =>
    LET a == Resolve(repo, call.rev1)
        b == Resolve(repo, call.rev2)
    IN  IF a = 0 \/ b = 0
        THEN /\ ret.outcome = "CalledProcessError"
             /\ ret.value.returncode \notin {0, 1}
             /\ ret.value.cmd = <<"merge-base", call.rev1, call.rev2>>
             /\ ret.value.output # <<>>
             /\ ret.value.output = GitMergeBase(repo, call.rev1, call.rev2).stderr
        ELSE IF Ancestors(repo, a) \cap Ancestors(repo, b) = {}
        THEN ret = Done("NoneType", <<>>)
        ELSE /\ ret.outcome = "ok" /\ ret.type = "str"
             /\ Len(ret.value) = 1 /\ IsHash(ret.value[1])
             /\ CommitOf(ret.value[1]) \in Ancestors(repo, a) \cap Ancestors(repo, b)
             /\ Ancestors(repo, a) \cap Ancestors(repo, b)
                  \subseteq Ancestors(repo, CommitOf(ret.value[1]))

C19_Witness ==
  /\ Called("ancestor") /\ repo = "BranchTestStep7"
  /\ call.rev1 = "branch2" /\ call.rev2 = "branch1a"
  /\ ret = Done("str", <<Hash(3)>>)

(***************************************************************************)
(* CommitLogEntry.subject, over every short message.                       *)
(***************************************************************************)
\* longest message
MaxMessage == 4

\* a letter, a blank and the line break
MessageChars == {"a", " ", "\n"}

Messages == UNION {[1 .. n -> MessageChars] : n \in 0 .. MaxMessage}

\* CommitLogEntry.subject
subject(message) == Split(message, "\n", 1)[1]

\* a CommitLogEntry holding some message
InitSubject ==
  /\ repo = "EmptyTest"
  /\ cache = EmptyCache
  /\ pc = "ready"
  /\ ncalls = 0
  /\ call \in {[op |-> "subject", message |-> m] : m \in Messages}
  /\ ret = NoRet

\* the client reads entry.subject
Subject ==
  /\ pc = "ready"
  /\ ret' = Done("str", subject(call.message))
  /\ pc' = "returned"
  /\ UNCHANGED <<repo, cache, ncalls, call>>

NextSubject == Subject

SpecSubject == InitSubject /\ [][NextSubject]_vars

\* C20: for every commit message, subject is the message cut at its first line
\* break, and it has no trailing whitespace.
C20_SubjectIsTheFirstLineStripped ==
  Called("subject") =>
    /\ ret.value = SubSeq(call.message, 1, Len(ret.value))
    /\ \A i \in 1 .. Len(ret.value) : ret.value[i] # "\n"
    /\ Len(ret.value) < Len(call.message) => call.message[Len(ret.value) + 1] = "\n"
    /\ ret.value # <<>> => ~IsSpace(ret.value[Len(ret.value)])

(***************************************************************************)
(* The same log query issued twice in a row (CacheTest.test_log_head).     *)
(***************************************************************************)
RepeatRepos == {"CacheTest", "CopyTest", "EmptyTest"}

InitRepeat ==
  /\ repo \in RepeatRepos
  /\ cache = EmptyCache
  /\ pc = "ready"
  /\ ncalls = 0
  /\ call = NoCall
  /\ ret = NoRet

\* result._cached: reading an attribute the object may not have
HasAttr(object, name) == name \in DOMAIN object

\* the client issues the query it has just got an answer to once more, and
\* keeps the first answer beside the second
LogAgain ==
  /\ pc = "returned"
  /\ call.op = "log"
  /\ call' = [call EXCEPT !.op = "log again"]
  /\ ret' = [second |-> log(repo, call.revrange, call.limit, call.firstparent,
                            call.merges, call.path, call.follow),
             first |-> ret, outcome |-> "twice"]
  /\ UNCHANGED <<repo, cache, pc, ncalls>>

NextRepeat == Log \/ LogAgain \/ Return

SpecRepeat == InitRepeat /\ [][NextRepeat]_vars

\* C21: when the same single-revision log query is issued twice in a row on an
\* unchanged repository, the entry the second call returns is flagged as served
\* from cache (_cached is true) and has the rev of the first.
C21_SecondLogIsFlaggedCached ==
  (/\ Called("log again") /\ call.revrange.form = "single"
   /\ ret.first.outcome = "ok" /\ ret.first.type = "CommitLogEntry")
    => /\ ret.second.outcome = "ok" /\ ret.second.type = "CommitLogEntry"
       /\ ret.second.value.rev = ret.first.value.rev
       /\ HasAttr(ret.second.value, "_cached")
       /\ ret.second.value._cached

(***************************************************************************)
(* VCSRepo.cleanPath, over every short path string.                        *)
(***************************************************************************)
\* longest path string
MaxPathLen == 5

\* the separator, a letter and the dot of '.' and '..'
PathChars == {SEP, "a", "."}

PathStrings == UNION {[1 .. n -> PathChars] : n \in 0 .. MaxPathLen}

InitCleanPath ==
  /\ repo = "EmptyTest"
  /\ cache = EmptyCache
  /\ pc = "ready"
  /\ ncalls = 0
  /\ call \in {[op |-> "cleanPath", path |-> p] : p \in PathStrings}
  /\ ret = NoRet

\* the client calls cleanPath(path)
CleanPath ==
  /\ pc = "ready"
  /\ ret' = Done("str", cleanPath(call.path))
  /\ pc' = "returned"
  /\ UNCHANGED <<repo, cache, ncalls, call>>

NextCleanPath == CleanPath

SpecCleanPath == InitCleanPath /\ [][NextCleanPath]_vars

\* C22: cleanPath is idempotent: cleanPath(cleanPath(p)) = cleanPath(p) for every
\* path string p.
C22_CleanPathIsIdempotent ==
  Called("cleanPath") => cleanPath(ret.value) = ret.value

C22_Witness ==
  /\ Called("cleanPath")
  /\ call.path = <<SEP, SEP, "a", SEP, SEP>>
  /\ ret.value = <<"a", SEP>>

\* the components of a path string: its maximal runs of characters other
\* than the separator, in order
RECURSIVE NamesOf(_, _)
NamesOf(s, name) ==
  IF s = <<>> THEN (IF name = <<>> THEN <<>> ELSE <<name>>)
  ELSE IF Head(s) = SEP
  THEN (IF name = <<>> THEN <<>> ELSE <<name>>) \o NamesOf(Tail(s), <<>>)
  ELSE NamesOf(Tail(s), Append(name, Head(s)))

\* C23: cleanPath(p) is p with its leading separators removed and every run of
\* separators replaced by one: it never starts with '/', never contains '//',
\* keeps a trailing separator of p (as one '/') unless p is separators only,
\* and leaves every component, '.' and '..' included, as it is.
C23_CleanPathStripsAndCollapses ==
  Called("cleanPath") =>
    /\ ret.value # <<>> => ret.value[1] # SEP
    /\ \A i \in 1 .. Len(ret.value) - 1 : ~(ret.value[i] = SEP /\ ret.value[i + 1] = SEP)
    /\ EndsWithSep(ret.value) <=> (EndsWithSep(call.path) /\ NamesOf(call.path, <<>>) # <<>>)
    /\ NamesOf(ret.value, <<>>) = NamesOf(call.path, <<>>)

C23_Witness ==
  /\ Called("cleanPath")
  /\ call.path = <<SEP, ".", ".", SEP, SEP>>
  /\ ret.value = <<".", ".", SEP>>

(***************************************************************************)
(* Python floats (IEEE 754 doubles), as parse_isodate uses them: the       *)
(* fraction read by float(), multiplied by 60 or 1000000, cut by int().    *)
(* A natural number is the sequence of its digits in base LIMB, lowest     *)
(* first, with no zero at the high end; a double is a mantissa m of at     *)
(* most MANT_DIG bits and an exponent e, and stands for m * 2^e.           *)
(***************************************************************************)
\* bits of a double's mantissa
MANT_DIG == 53

\* bits of a digit of a natural number
LIMB_BITS == 15
LIMB == 2 ^ LIMB_BITS

\* the decimal digits as characters, and int() of one
DIGITS == <<"0", "1", "2", "3", "4", "5", "6", "7", "8", "9">>
IsDigit(ch) == \E i \in 1 .. Len(DIGITS) : DIGITS[i] = ch
DigitValue(ch) == (CHOOSE i \in 1 .. Len(DIGITS) : DIGITS[i] = ch) - 1

\* int(s) for a string of digits
RECURSIVE int(_)
int(s) ==
  IF s = <<>> THEN 0
  ELSE 10 * int(SubSeq(s, 1, Len(s) - 1)) + DigitValue(s[Len(s)])

RECURSIVE NNorm(_)
NNorm(a) == IF a # <<>> /\ a[Len(a)] = 0 THEN NNorm(SubSeq(a, 1, Len(a) - 1)) ELSE a

\* a * c + carry, for machine integers c and carry below LIMB
RECURSIVE NMulAdd(_, _, _)
NMulAdd(a, c, carry) ==
  IF a = <<>> THEN (IF carry = 0 THEN <<>> ELSE <<carry>>)
  ELSE <<(a[1] * c + carry) % LIMB>> \o NMulAdd(Tail(a), c, (a[1] * c + carry) \div LIMB)

\* quotient and remainder of a by a machine integer c, from digit i of a down
RECURSIVE NDivMod(_, _, _, _, _)
NDivMod(a, c, i, q, r) ==
  IF i = 0 THEN [q |-> NNorm(q), r |-> r]
  ELSE NDivMod(a, c, i - 1, <<(r * LIMB + a[i]) \div c>> \o q, (r * LIMB + a[i]) % c)

NDiv(a, c) == NDivMod(a, c, Len(a), <<>>, 0)

\* number of bits of a machine integer
RECURSIVE IntBitLen(_)
IntBitLen(k) == IF k = 0 THEN 0 ELSE 1 + IntBitLen(k \div 2)

NBitLen(a) == IF a = <<>> THEN 0 ELSE LIMB_BITS * (Len(a) - 1) + IntBitLen(a[Len(a)])

\* a * 2^n
NShl(a, n) ==
  IF a = <<>> THEN <<>>
  ELSE [i \in 1 .. n \div LIMB_BITS |-> 0] \o NMulAdd(a, 2 ^ (n % LIMB_BITS), 0)

\* a \div 2^n, and whether a set bit was dropped
NShr(a, n) ==
  [q |-> NDiv(SubSeq(a, n \div LIMB_BITS + 1, Len(a)), 2 ^ (n % LIMB_BITS)).q,
   inexact |-> \/ \E i \in 1 .. n \div LIMB_BITS : i <= Len(a) /\ a[i] # 0
               \/ NDiv(SubSeq(a, n \div LIMB_BITS + 1, Len(a)), 2 ^ (n % LIMB_BITS)).r # 0]

\* the value of a natural number that fits a machine integer
RECURSIVE NToInt(_)
NToInt(a) == IF a = <<>> THEN 0 ELSE a[1] + LIMB * NToInt(Tail(a))

NOdd(a) == a # <<>> /\ a[1] % 2 = 1

\* the value of a decimal numeral, given the value acc of the digits before it
RECURSIVE NFromDigits(_, _)
NFromDigits(digits, acc) ==
  IF digits = <<>> THEN acc
  ELSE NFromDigits(Tail(digits), NMulAdd(acc, 10, DigitValue(Head(digits))))

\* a mantissa that rounding carried to MANT_DIG + 1 bits is a power of two
Carried(m, e) ==
  IF NBitLen(m) > MANT_DIG THEN [m |-> NDiv(m, 2).q, e |-> e + 1] ELSE [m |-> m, e |-> e]

\* round to nearest, ties to even: h is the value cut to MANT_DIG + 1 bits,
\* inexact tells whether anything below was cut off
RoundedHalf(h, inexact, e) ==
  Carried(IF NOdd(h) /\ (inexact \/ NOdd(NDiv(h, 2).q))
          THEN NMulAdd(NDiv(h, 2).q, 1, 1)
          ELSE NDiv(h, 2).q,
          e)

RoundedCut(cut, inexact, e) == RoundedHalf(cut.q, cut.inexact \/ inexact, e)

\* the double nearest to (a + d) * 2^e, where 0 <= d < 1 and d # 0 iff inexact
Rounded(a, e, inexact) ==
  IF NBitLen(a) <= MANT_DIG THEN [m |-> a, e |-> e]
  ELSE RoundedCut(NShr(a, NBitLen(a) - MANT_DIG - 1), inexact, e + NBitLen(a) - MANT_DIG)

\* a \div 10^n and whether a remainder was dropped
RECURSIVE DivPow10(_, _, _)
DivPow10(a, n, inexact) ==
  IF n = 0 THEN [q |-> a, inexact |-> inexact]
  ELSE DivPow10(NDiv(a, 10).q, n - 1, inexact \/ NDiv(a, 10).r # 0)

Quotient(cut, e) == Rounded(cut.q, e, cut.inexact)

\* float('0.' + digits): the double nearest to k / 10^n; the quotient is taken
\* with enough extra bits for the rounding to see everything
FloatOfRatio(k, n, s) ==
  IF k = <<>> THEN [m |-> <<>>, e |-> 0]
  ELSE Quotient(DivPow10(NShl(k, s), n, FALSE), 0 - s)

float_fraction(digits) ==
  FloatOfRatio(NFromDigits(digits, <<>>), Len(digits), MANT_DIG + 3 + 4 * Len(digits))

\* the exact product of a natural number and small factors
RECURSIVE NProduct(_, _)
NProduct(a, factors) ==
  IF factors = <<>> THEN a ELSE NProduct(NMulAdd(a, Head(factors), 0), Tail(factors))

\* c * x for a double x and an integer c given as small factors: one rounding
float_mul(factors, x) == Rounded(NProduct(x.m, factors), x.e, FALSE)

\* int(x) for a double x >= 0
float_int(x) ==
  IF x.e >= 0 THEN NToInt(NShl(x.m, x.e)) ELSE NToInt(NShr(x.m, 0 - x.e).q)

(***************************************************************************)
(* parse_isodate.  A date string is a sequence of characters.              *)
(***************************************************************************)
\* the character at position i, or nothing past the end
At(s, i) == IF i >= 1 /\ i <= Len(s) THEN s[i] ELSE ""

\* \d{2} at position i
Digits2(s, i) == IsDigit(At(s, i)) /\ IsDigit(At(s, i + 1))

\* \s* from position i: the position after the run of whitespace
RECURSIVE SkipSpace(_, _)
SkipSpace(s, i) == IF IsSpace(At(s, i)) THEN SkipSpace(s, i + 1) ELSE i

\* \d+ from position i: the position after the run of digits
RECURSIVE SkipDigits(_, _)
SkipDigits(s, i) == IF IsDigit(At(s, i)) THEN SkipDigits(s, i + 1) ELSE i

\* -? at position i
SkipDash(s, i) == IF At(s, i) = "-" THEN i + 1 ELSE i

\* (?:T\s*)? at position i
SkipT(s, i) == IF At(s, i) = "T" THEN SkipSpace(s, i + 1) ELSE i

\* :?(\d{2}) at position i: where the two digits start, 0 when they are missing
ColonDigits2(s, i) ==
  IF At(s, i) = ":" /\ Digits2(s, i + 1) THEN i + 1
  ELSE IF Digits2(s, i) THEN i
  ELSE 0

\* a group that matched s[from .. to], or None
Group(s, from, to) == IF from = 0 THEN <<>> ELSE SubSeq(s, from, to)

\* (?P<tz>Z|[+-](?P<tzhh>\d{2})(?::?(?P<tzmm>\d{2}))?) at position z
TzGroups(s, z) ==
  IF At(s, z) = "Z" THEN [tz |-> <<"Z">>, tzhh |-> <<>>, tzmm |-> <<>>]
  ELSE IF At(s, z) \in {"+", "-"} /\ Digits2(s, z + 1)
  THEN [tz |-> SubSeq(s, z, IF ColonDigits2(s, z + 3) = 0 THEN z + 2
                            ELSE ColonDigits2(s, z + 3) + 1),
        tzhh |-> SubSeq(s, z + 1, z + 2),
        tzmm |-> Group(s, ColonDigits2(s, z + 3), ColonDigits2(s, z + 3) + 1)]
  ELSE [tz |-> <<>>, tzhh |-> <<>>, tzmm |-> <<>>]

\* (?:[,.](?P<fraction>\d+))? at position f, then the timezone
FractionAndTz(s, f) ==
  IF At(s, f) \in {",", "."} /\ IsDigit(At(s, f + 1))
  THEN [fraction |-> SubSeq(s, f + 1, SkipDigits(s, f + 1) - 1),
        zone |-> TzGroups(s, SkipSpace(s, SkipDigits(s, f + 1)))]
  ELSE [fraction |-> <<>>, zone |-> TzGroups(s, SkipSpace(s, f))]

\* the optional second at position sp (0: missing) after a minute at mp
AfterSecond(s, mp, sp) == IF sp = 0 THEN mp + 2 ELSE sp + 2

\* the groups from the hour on: the hour is at h, the minute at mp, the second
\* at sp (0: missing)
TimeGroups(s, h, mp, sp) ==
  [hour |-> SubSeq(s, h, h + 1),
   minute |-> Group(s, mp, mp + 1),
   second |-> Group(s, sp, sp + 1),
   rest |-> FractionAndTz(s, IF mp = 0 THEN h + 2 ELSE AfterSecond(s, mp, sp))]

FromHour(s, h, mp) ==
  TimeGroups(s, h, mp, IF mp = 0 THEN 0 ELSE ColonDigits2(s, mp + 2))

\* where the hour starts after a date whose day ends before position e, 0 when
\* no hour follows: \s*(?:T\s*)?(?P<hour>\d{2})
HourAfter(s, e) ==
  IF Digits2(s, SkipT(s, SkipSpace(s, e))) THEN SkipT(s, SkipSpace(s, e)) ELSE 0

\* where the month and the day start in a date that starts at i
MonthAt(s, i) == SkipDash(s, i + 4)
DayAt(s, i) == SkipDash(s, MonthAt(s, i) + 2)

\* isodate_rx matches at position i
MatchesAt(s, i) ==
  /\ Digits2(s, i) /\ Digits2(s, i + 2)
  /\ Digits2(s, MonthAt(s, i))
  /\ Digits2(s, DayAt(s, i))
  /\ HourAfter(s, DayAt(s, i) + 2) # 0

\* m.group(...) of the match at position i
GroupsAt(s, i) ==
  [year |-> SubSeq(s, i, i + 3),
   month |-> SubSeq(s, MonthAt(s, i), MonthAt(s, i) + 1),
   day |-> SubSeq(s, DayAt(s, i), DayAt(s, i) + 1),
   time |-> FromHour(s, HourAfter(s, DayAt(s, i) + 2),
                     ColonDigits2(s, HourAfter(s, DayAt(s, i) + 2) + 2))]

\* isodate_rx.search(datestr): the leftmost match, or None
isodate_rx_search(s) ==
  IF \E i \in 1 .. Len(s) : MatchesAt(s, i)
  THEN <<GroupsAt(s, CHOOSE i \in 1 .. Len(s) :
                       MatchesAt(s, i) /\ \A j \in 1 .. i - 1 : ~MatchesAt(s, j))>>
  ELSE <<>>

\* datetime.datetime: the ranges its constructor and replace() accept
IsLeap(year) == year % 4 = 0 /\ (year % 100 # 0 \/ year % 400 = 0)
DaysInMonth(year, month) ==
  IF month = 2 THEN (IF IsLeap(year) THEN 29 ELSE 28)
  ELSE IF month \in {4, 6, 9, 11} THEN 30 ELSE 31
ValidDate(year, month, day, hour) ==
  /\ year \in 1 .. 9999 /\ month \in 1 .. 12
  /\ day \in 1 .. DaysInMonth(year, month)
  /\ hour \in 0 .. 23

\* the timestamp, or the ValueError of datetime for a field out of range
Timestamp(year, month, day, hour, minute, second, microsecond, tzinfo) ==
  IF /\ ValidDate(year, month, day, hour)
     /\ minute \in 0 .. 59 /\ second \in 0 .. 59 /\ microsecond \in 0 .. 999999
  THEN Done("datetime", [year |-> year, month |-> month, day |-> day, hour |-> hour,
                         minute |-> minute, second |-> second,
                         microsecond |-> microsecond, tzinfo |-> tzinfo])
  ELSE Failed("ValueError", <<>>)

\* int(c * fraction), fraction being 0 or float('0.' + fraction)
IntOfScaled(factors, fraction) ==
  IF fraction = <<>> THEN 0 ELSE float_int(float_mul(factors, float_fraction(fraction)))

\* TzInfo with the sign of the offset on the hours alone
TzInfo_signed_hours(zone) ==
  IF zone.tz = <<>> THEN <<>>
  ELSE IF zone.tz[1] = "Z" THEN <<0>>
  ELSE IF zone.tz[1] = "-" THEN <<int(zone.tzmm) - 60 * int(zone.tzhh)>>
  ELSE <<int(zone.tzmm) + 60 * int(zone.tzhh)>>

\* UTCOffset(offset), in minutes; None when the string has no timezone
TzInfo(zone) ==
  IF zone.tz = <<>> THEN <<>>
  ELSE IF zone.tz[1] = "Z" THEN <<0>>
  ELSE IF zone.tz[1] = "-" THEN <<0 - (int(zone.tzmm) + 60 * int(zone.tzhh))>>
  ELSE <<int(zone.tzmm) + 60 * int(zone.tzhh)>>

\* parse_isodate from `dt = datetime.datetime(...)` on
parse_groups(g, t) ==
  IF t.minute = <<>>
  THEN Timestamp(int(g.year), int(g.month), int(g.day), int(t.hour),
                 IntOfScaled(<<60>>, t.rest.fraction), 0, 0, TzInfo(t.rest.zone))
  ELSE IF t.second = <<>>
  THEN Timestamp(int(g.year), int(g.month), int(g.day), int(t.hour),
                 int(t.minute), IntOfScaled(<<60>>, t.rest.fraction), 0,
                 TzInfo(t.rest.zone))
  ELSE Timestamp(int(g.year), int(g.month), int(g.day), int(t.hour),
                 int(t.minute), int(t.second),
                 IntOfScaled(<<1000, 1000>>, t.rest.fraction), TzInfo(t.rest.zone))

parse_match(m) ==
  IF m = <<>> THEN Failed("AssertionError", <<>>) ELSE parse_groups(m[1], m[1].time)

\* parse_isodate
parse_isodate(datestr) == parse_match(isodate_rx_search(datestr))

\* UTCOffset.utcoffset and UTCOffset.dst of a timestamp's tzinfo, in minutes
\* (None for a naive timestamp)
utcoffset(dt) == dt.tzinfo
dst(dt) == IF dt.tzinfo = <<>> THEN <<>> ELSE <<0>>

(***************************************************************************)
(* The date strings given to parse_isodate: a date, then nothing or a time *)
(* with its optional parts, and strings that are no date.                  *)
(***************************************************************************)
DateParts ==
  {<<"2", "0", "1", "3", "-", "0", "1", "-", "0", "2">>,
   <<"2", "0", "1", "2", "0", "2", "2", "9">>,
   <<"2", "0", "1", "3", "-", "0", "2", "-", "3", "0">>}

HourParts ==
  {<<" ", "0", "3">>,
   <<"T", "2", "3">>,
   <<"2", "4">>,
   <<" ", "T", " ", "0", "3">>}

MinuteParts ==
  {<<>>,
   <<":", "0", "4">>,
   <<"5", "9">>,
   <<":", "6", "0">>}

SecondParts ==
  {<<>>,
   <<":", "0", "5">>,
   <<"5", "9">>}

FractionParts ==
  {<<>>,
   <<".", "5">>,
   <<",", "2", "5">>,
   <<".", "0", "1", "5", "7">>,
   <<".", "9", "9", "9", "9", "9", "9", "9", "9", "9", "9", "9", "9", "9", "9", "9", "9", "9", "9", "9", "9">>,
   <<".", "0", "4", "9">>}

TzParts ==
  {<<>>,
   <<"Z">>,
   <<" ", "Z">>,
   <<"+", "0", "5", "3", "0">>,
   <<" ", "-", "0", "5", "3", "0">>,
   <<"-", "0", "5", ":", "3", "0">>,
   <<" ", "+", "0", "5">>,
   <<"-", "0", "0", ":", "0", "1">>,
   <<"+", "2", "3", "5", "9">>}

NoDates ==
  {<<>>,
   <<"g", "a", "r", "b", "a", "g", "e">>,
   <<"2", "0", "1", "3", "-", "1", "-", "2", " ", "0", "3", ":", "0", "4">>,
   <<"1", "3", "-", "0", "1", "-", "0", "2", " ", "0", "3">>}

\* the parts a date string is written from; a second needs a minute
DateInputs ==
  {[date |-> d, hour |-> <<>>, minute |-> <<>>, second |-> <<>>, fraction |-> <<>>,
    tz |-> <<>>] : d \in DateParts \cup NoDates}
  \cup {in \in [date : DateParts, hour : HourParts, minute : MinuteParts,
                second : SecondParts, fraction : FractionParts, tz : TzParts] :
          in.minute = <<>> => in.second = <<>>}

\* the string written from the parts
DateString(in) == in.date \o in.hour \o in.minute \o in.second \o in.fraction \o in.tz

InitDate ==
  /\ repo = "EmptyTest"
  /\ cache = EmptyCache
  /\ pc = "ready"
  /\ ncalls = 0
  /\ call \in {[op |-> "parse_isodate", datestr |-> DateString(in), parts |-> in] :
                 in \in DateInputs}
  /\ ret = NoRet

\* the client calls parse_isodate(datestr)
ParseIsodate ==
  /\ pc = "ready"
  /\ ret' = parse_isodate(call.datestr)
  /\ pc' = "returned"
  /\ UNCHANGED <<repo, cache, ncalls, call>>

NextDate == ParseIsodate

SpecDate == InitDate /\ [][NextDate]_vars

(***************************************************************************)
(* What a date string says, read from the parts it was written from.       *)
(***************************************************************************)
\* the digits of a part
PartDigits(part) == SelectSeq(part, IsDigit)

\* the number a part writes
Written(part) == int(PartDigits(part))

\* the date and the time fields written are a date and a time of the calendar
WrittenInRange(in) ==
  /\ in.hour # <<>>
  /\ ValidDate(int(SubSeq(PartDigits(in.date), 1, 4)), int(SubSeq(PartDigits(in.date), 5, 6)),
               int(SubSeq(PartDigits(in.date), 7, 8)), Written(in.hour))
  /\ in.minute # <<>> => Written(in.minute) \in 0 .. 59
  /\ in.second # <<>> => Written(in.second) \in 0 .. 59

\* floor(c * 0.digits) in exact arithmetic, c given as small factors
ExactFloor(factors, digits) ==
  IF digits = <<>> THEN 0
  ELSE NToInt(DivPow10(NProduct(NFromDigits(digits, <<>>), factors), Len(digits), FALSE).q)

\* the fields the fraction decides, by its position
ByPosition(in, f, dt) ==
  IF in.minute = <<>>
  THEN dt.minute = ExactFloor(<<60>>, f) /\ dt.second = 0
  ELSE IF in.second = <<>>
  THEN dt.minute = Written(in.minute) /\ dt.second = ExactFloor(<<60>>, f)
  ELSE /\ dt.minute = Written(in.minute) /\ dt.second = Written(in.second)
       /\ dt.microsecond = ExactFloor(<<1000, 1000>>, f)

\* C24: the fraction of a date string counts in the smallest field written:
\* without a minute it gives the minute floor(60 x fraction) and second 0, with a
\* minute and no second it gives the second floor(60 x fraction), with both it
\* gives the microseconds, and without a fraction a missing minute or second is 0.
C24_FractionByPosition ==
  Called("parse_isodate") /\ WrittenInRange(call.parts) =>
    /\ ret.outcome = "ok"
    /\ ByPosition(call.parts, PartDigits(call.parts.fraction), ret.value)

\* HH hours and MM minutes, in minutes, of the digits HH or HHMM
HoursAndMinutes(digits) ==
  60 * int(SubSeq(digits, 1, 2))
  + (IF Len(digits) > 2 THEN int(SubSeq(digits, 3, 4)) ELSE 0)

\* the offset a timezone part writes, in minutes: the sign on hours and minutes
WrittenOffset(tz) ==
  IF \E i \in DOMAIN tz : tz[i] = "Z" THEN 0
  ELSE IF \E i \in DOMAIN tz : tz[i] = "-" THEN 0 - HoursAndMinutes(PartDigits(tz))
  ELSE HoursAndMinutes(PartDigits(tz))

\* C25: a date string without a timezone gives a naive timestamp; with Z it gives
\* one of offset zero; with +HHMM, -HHMM, +HH:MM or +HH it gives one whose
\* utcoffset is HH hours and MM minutes, the sign on both, and whose dst is zero.
C25_TimezoneOffset ==
  Called("parse_isodate") /\ ret.outcome = "ok" /\ call.parts.hour # <<>> =>
    IF call.parts.tz = <<>>
    THEN utcoffset(ret.value) = <<>>
    ELSE /\ utcoffset(ret.value) = <<WrittenOffset(call.parts.tz)>>
         /\ dst(ret.value) = <<0>>

\* a negative offset with minutes, after a fraction and a blank
C25_Witness ==
  /\ Called("parse_isodate")
  /\ call.datestr = <<"2", "0", "1", "3", "-", "0", "1", "-", "0", "2", " ", "0", "3",
                      ":", "0", "4", ":", "0", "5", ".", "5", " ", "-", "0", "5", "3", "0">>
  /\ ret.outcome = "ok"
  /\ utcoffset(ret.value) = <<0 - 330>>

\* C26: the time of a date string is optional: a string that is a date alone
\* gives the timestamp of that date, and a string is refused as unrecognized only
\* when it holds no date.
C26_TimeIsOptional ==
  Called("parse_isodate") =>
    /\ ( /\ call.parts.hour = <<>>
         /\ call.parts.date \in DateParts
         /\ ValidDate(int(SubSeq(PartDigits(call.parts.date), 1, 4)),
                      int(SubSeq(PartDigits(call.parts.date), 5, 6)),
                      int(SubSeq(PartDigits(call.parts.date), 7, 8)), 0)
         => /\ ret.outcome = "ok"
            /\ ret.value.year = int(SubSeq(PartDigits(call.parts.date), 1, 4))
            /\ ret.value.month = int(SubSeq(PartDigits(call.parts.date), 5, 6))
            /\ ret.value.day = int(SubSeq(PartDigits(call.parts.date), 7, 8)) )
    /\ ret.outcome = "AssertionError" => call.parts.date \in NoDates

(***************************************************************************)
(* log when nothing is selected.                                           *)
(***************************************************************************)
\* every end of the range that is given names a commit
EndsResolve(R, revrange) ==
  /\ revrange.from # <<>> => Resolve(R, revrange.from[1]) # 0
  /\ revrange.to # <<>> => Resolve(R, revrange.to[1]) # 0

\* the range and the filters of a log call select no commit: the range is a
\* pair (F, R) with R at F or behind it, the limit is 0, merges are asked of a
\* history that has none, or the path is one no commit touches
SelectsNothing(R, c) ==
  \/ /\ c.revrange.form = "pair" /\ c.revrange.from # <<>> /\ c.revrange.to # <<>>
     /\ Resolve(R, c.revrange.to[1]) \in Ancestors(R, Resolve(R, c.revrange.from[1]))
  \/ c.limit = <<0>>
  \/ c.merges = <<TRUE>> /\ \A x \in Commits(R) : Len(Parents(R, x)) <= 1
  \/ /\ c.path # <<>> /\ cleanPath(c.path[1]) # <<>>
     /\ \A x \in Commits(R) : ~Touches(R, x, cleanPath(c.path[1]))

\* C29: in a repository that has commits, a log call whose range and filters
\* select no commit returns the empty list and raises nothing.
C29_NothingSelectedIsTheEmptyList ==
  (/\ Called("log") /\ Commits(repo) # {}
   /\ call.revrange.form # "single"
   /\ EndsResolve(repo, call.revrange)
   /\ SelectsNothing(repo, call))
    => ret = Done("list", <<>>)

(***************************************************************************)
(* The object cache within one process.                                    *)
(***************************************************************************)
\* the object id of what rev has at the path named n
ObjectAt(R, rev, n) == EntryAt(R, rev, n)[2]

\* the object ids of the entries the call has returned with a commit, each with
\* the commit returned for it
ReturnedCommits ==
  {<<TheEntry(repo, call.rev, EntryNames(e)).object, e.commit>> :
     e \in {x \in Entries : "commit" \in DOMAIN x}}

\* C30: in one process no call changes or removes an entry of the object cache;
\* the cache changes only by ls with 'commit' in report adding the object ids
\* that were absent, each after one history search; for an object id that is
\* present the stored revision is returned and no history search is run; every
\* other call leaves the cache as it is.
C30_CacheOnlyGrows ==
  [][ /\ \A o \in DOMAIN cache : o \in DOMAIN cache' /\ cache'[o] = cache[o]
      /\ cache' # cache => call'.op = "ls" /\ "commit" \in call'.report
      /\ (pc' = "returned" /\ call'.op = "ls") =>
           /\ \A n \in ret'.searches : ObjectAt(repo, call'.rev, n) \notin DOMAIN cache
           /\ DOMAIN cache' \ DOMAIN cache
                = {ObjectAt(repo, call'.rev, n) : n \in ret'.searches}
           /\ ret'.outcome = "ok" => \A oc \in ReturnedCommits' : cache'[oc[1]] = oc[2]
    ]_vars

\* a second ls with 'commit' in report answered from the cache alone
C30_Witness ==
  /\ Called("ls") /\ "commit" \in call.report /\ ret.outcome = "ok"
  /\ ret.searches = {}
  /\ \E e \in Entries : "commit" \in DOMAIN e /\ e.type = "f"

(***************************************************************************)
(* Several processes listing the same repository.  They share the object   *)
(* cache (object-cache.db); each runs ls with 'commit' in report, and the  *)
(* loop of ls is taken one cache access at a time: the lookup of           *)
(* cache[objid], and on KeyError the history search with the store into    *)
(* cache[objid].  pc, call and ret hold one value per process.             *)
(***************************************************************************)
Procs == {"p1", "p2"}

\* the paths the processes list: everything that exists, written plainly
PlainPaths(R) == {Join(t, 1) : t \in Existing(R)}

InitShared ==
  /\ repo \in Repos
  /\ cache = EmptyCache
  /\ pc = [p \in Procs |-> "ready"]
  /\ ncalls = 0
  /\ call = [p \in Procs |-> NoCall]
  /\ ret = [p \in Procs |-> NoRet]

\* the loop goes on with line i of the output, or ls closes the cache and returns
LoopFrom(p, i, results) ==
  /\ pc' = [pc EXCEPT ![p] = IF i > Len(call[p].lines) THEN "returned" ELSE "lookup"]
  /\ call' = [call EXCEPT ![p].i = i]
  /\ ret' = [ret EXCEPT ![p] = [outcome |-> "ok", value |-> results]]

\* ls raises
Raised(p, exception) ==
  /\ pc' = [pc EXCEPT ![p] = "returned"]
  /\ ret' = [ret EXCEPT ![p] = [outcome |-> exception, value |-> <<>>]]
  /\ UNCHANGED call

\* ls up to the loop: the path is cleaned and checked, git ls-tree is run and
\* the cache is opened
LsBegin(p, rev, path, recursive, directory, found, output) ==
  /\ ncalls' = ncalls + 1
  /\ UNCHANGED <<repo, cache>>
  /\ IF found.do = "root"
     THEN /\ pc' = [pc EXCEPT ![p] = "returned"]
          /\ call' = [call EXCEPT ![p] = [op |-> "ls", rev |-> rev, path |-> path]]
          /\ ret' = [ret EXCEPT ![p] = [outcome |-> "ok", value |-> <<[type |-> "d"]>>]]
     ELSE IF found.do # "list" \/ output = <<>>
     THEN /\ pc' = [pc EXCEPT ![p] = "returned"]
          /\ call' = [call EXCEPT ![p] = [op |-> "ls", rev |-> rev, path |-> path]]
          /\ ret' = [ret EXCEPT ![p] =
                       [outcome |-> IF found.do # "list" THEN found.do
                                    ELSE "AssertionError",
                        value |-> <<>>]]
     ELSE /\ pc' = [pc EXCEPT ![p] = "lookup"]
          /\ call' = [call EXCEPT ![p] =
                        [op |-> "ls", rev |-> rev, path |-> path,
                         q |-> [repo |-> repo, rev |-> rev, path |-> found.path,
                                ltrim |-> Len(LsPath(path, directory).path),
                                forcedir |-> LsPath(path, directory).forcedir,
                                recursive_dirs |-> FALSE, report |-> {"commit"}],
                         lines |-> output, i |-> 1]]
          /\ ret' = [ret EXCEPT ![p] = [outcome |-> "ok", value |-> <<>>]]

LsChecked(p, rev, path, recursive, directory, found) ==
  LsBegin(p, rev, path, recursive, directory, found,
          GitLsTree(repo, rev, found.path, recursive, FALSE, FALSE))

\* process p calls repo.ls(rev, path, recursive, directory=directory,
\* report=('commit',))
LsStart(p) ==
  /\ pc[p] = "ready"
  /\ ncalls < MaxCalls
  /\ \E rev \in Revs(repo), path \in PlainPaths(repo), recursive \in BOOLEAN,
        directory \in BOOLEAN :
       LsChecked(p, rev, path, recursive, directory,
                 LsExists(repo, rev, LsPath(path, directory).path, directory,
                          LsPath(path, directory).forcedir))

\* one line of the loop up to `entry.commit = cache[objid]`
LsLookupLine(p, q, line, e) ==
  /\ UNCHANGED <<repo, cache, ncalls>>
  /\ IF ~StartsWith(line.name, q.path) THEN Raised(p, "AssertionError")
     ELSE IF e.do = "skip" THEN LoopFrom(p, call[p].i + 1, ret[p].value)
     ELSE IF e.do # "add" THEN Raised(p, e.do)
     ELSE IF line.object \in DOMAIN cache
     THEN LoopFrom(p, call[p].i + 1,
                   Append(ret[p].value, e.entry @@ [commit |-> cache[line.object]]))
     ELSE \* KeyError
          /\ pc' = [pc EXCEPT ![p] = "store"]
          /\ UNCHANGED <<call, ret>>

LsLookup(p) ==
  /\ pc[p] = "lookup"
  /\ LsLookupLine(p, call[p].q, call[p].lines[call[p].i],
                  LsEntry(call[p].q, call[p].lines[call[p].i]))

\* except KeyError: the history search, and its result stored in the cache
LsStoreLine(p, line, e, commit) ==
  /\ cache' = (line.object :> commit) @@ cache
  /\ LoopFrom(p, call[p].i + 1, Append(ret[p].value, e.entry @@ [commit |-> commit]))
  /\ UNCHANGED <<repo, ncalls>>

LsStore(p) ==
  /\ pc[p] = "store"
  /\ LsStoreLine(p, call[p].lines[call[p].i],
                 LsEntry(call[p].q, call[p].lines[call[p].i]),
                 GitLogLast(repo, call[p].q.rev, call[p].lines[call[p].i].name))

\* process p has its result
LsReturn(p) ==
  /\ pc[p] = "returned"
  /\ pc' = [pc EXCEPT ![p] = "ready"]
  /\ call' = [call EXCEPT ![p] = NoCall]
  /\ ret' = [ret EXCEPT ![p] = NoRet]
  /\ UNCHANGED <<repo, cache, ncalls>>

NextShared == \E p \in Procs : LsStart(p) \/ LsLookup(p) \/ LsStore(p) \/ LsReturn(p)

SpecShared == InitShared /\ [][NextShared]_vars

\* C27: whatever the processes list and however their steps interleave, every
\* store into the object cache for an object id stores the one revision of that
\* id: no store changes what the cache holds for it, so the cache in the end
\* does not depend on which process stored last.
C27_WritersStoreTheSameRevision ==
  [][\A o \in DOMAIN cache : cache'[o] = cache[o]]_vars

(***************************************************************************)
(* private_path.  Here repo is the repository's directory: its path, the    *)
(* names it holds, and whether a process may create a name in it           *)
(* ("writable"), may not ("readonly"), or the directory is gone            *)
(* ("missing").  Several processes read the property at once; os.mkdir is  *)
(* one step of the file system.                                            *)
(***************************************************************************)
PRIVATE == ".private"

RepoDirs ==
  {[path |-> <<"repo">>, access |-> a, names |-> n] :
     a \in {"writable", "readonly"}, n \in {{}, {PRIVATE}}}
  \cup {[path |-> <<"repo">>, access |-> "missing", names |-> {}]}

InitPrivate ==
  /\ repo \in RepoDirs
  /\ cache = EmptyCache
  /\ pc = [p \in Procs |-> "ready"]
  /\ ncalls = 0
  /\ call = [p \in Procs |-> NoCall]
  /\ ret = [p \in Procs |-> NoRet]

\* os.path.join(a, b)
os_path_join(a, b) == a \o <<SEP, b>>

\* process p reads repo.private_path: path = os.path.join(self.path, '.private')
PrivateStart(p) ==
  /\ pc[p] = "ready"
  /\ ncalls < MaxCalls
  /\ ncalls' = ncalls + 1
  /\ pc' = [pc EXCEPT ![p] = "mkdir"]
  /\ call' = [call EXCEPT ![p] =
                [op |-> "private_path", path |-> os_path_join(repo.path, PRIVATE)]]
  /\ UNCHANGED <<repo, cache, ret>>

\* os.mkdir(path) in a directory: the errno of the OSError it raises, or "none"
\* when it creates the name
mkdir_errno(dir, name) ==
  IF dir.access = "missing" THEN "ENOENT"
  ELSE IF name \in dir.names THEN "EEXIST"
  ELSE IF dir.access = "readonly" THEN "EACCES"
  ELSE "none"

\* try: os.mkdir(path)
Mkdir(p) ==
  /\ pc[p] = "mkdir"
  /\ repo' = IF mkdir_errno(repo, PRIVATE) = "none"
             THEN [repo EXCEPT !.names = @ \cup {PRIVATE}] ELSE repo
  /\ pc' = [pc EXCEPT ![p] = IF mkdir_errno(repo, PRIVATE) = "none" THEN "return"
                             ELSE "except"]
  /\ ret' = [ret EXCEPT ![p] = [outcome |-> "none", errno |-> mkdir_errno(repo, PRIVATE)]]
  /\ UNCHANGED <<cache, ncalls, call>>

\* the except clause had it raised every OSError again
reraise_always(errno) == TRUE

\* if e.errno != errno.EEXIST: raise
reraise(errno) == errno # "EEXIST"

\* except OSError as e
Except(p) ==
  /\ pc[p] = "except"
  /\ IF reraise(ret[p].errno)
     THEN /\ pc' = [pc EXCEPT ![p] = "returned"]
          /\ ret' = [ret EXCEPT ![p] = Failed("OSError", <<>>) @@ [errno |-> @.errno]]
     ELSE /\ pc' = [pc EXCEPT ![p] = "return"]
          /\ UNCHANGED ret
  /\ UNCHANGED <<repo, cache, ncalls, call>>

\* return path
ReturnPath(p) ==
  /\ pc[p] = "return"
  /\ pc' = [pc EXCEPT ![p] = "returned"]
  /\ ret' = [ret EXCEPT ![p] = Done("str", call[p].path) @@ [errno |-> @.errno]]
  /\ UNCHANGED <<repo, cache, ncalls, call>>

NextPrivate ==
  \E p \in Procs : PrivateStart(p) \/ Mkdir(p) \/ Except(p) \/ ReturnPath(p) \/ LsReturn(p)

SpecPrivate == InitPrivate /\ [][NextPrivate]_vars

\* C28: private_path returns the path of the directory .private under the
\* repository path, and the directory exists then: it is created when absent,
\* found when present, and of the processes that race to create it every one
\* returns; a creation that fails for another reason than that the directory
\* exists raises that error.
C28_PrivatePath ==
  \A p \in Procs :
    (pc[p] = "returned" /\ call[p].op = "private_path") =>
      /\ ret[p].outcome \in {"ok", "OSError"}
      /\ ret[p].outcome = "ok" =>
           /\ ret[p].value = repo.path \o <<SEP, PRIVATE>>
           /\ PRIVATE \in repo.names
      /\ ret[p].outcome = "OSError" <=> ret[p].errno \in {"ENOENT", "EACCES"}
      /\ (repo.access = "writable" \/ PRIVATE \in repo.names) => ret[p].outcome = "ok"

\* two processes raced: one created the directory, the other found it there,
\* and both have the path
C28_Witness ==
  /\ \A p \in Procs : pc[p] = "returned" /\ ret[p].outcome = "ok"
  /\ \E p \in Procs : ret[p].errno = "none"
  /\ \E p \in Procs : ret[p].errno = "EEXIST"

====
